---- MODULE Spec2Model ----
(***************************************************************************)
(* webwaka-core-identity: IdentityService over InMemoryUserStorage,        *)
(* InMemorySessionStorage and (in delegated mode) MockClerkAdapter.        *)
(*                                                                         *)
(* Identifiers are strings, and the storage keys are built by string       *)
(* concatenation exactly as the source builds them.  Every public          *)
(* operation of the service is one action; its outcome is recorded in      *)
(* `res`, the collaborator calls it made in `res.calls`.                   *)
(***************************************************************************)
EXTENDS Integers, Sequences, FiniteSets, TLC

(***************************************************************************)
(* Bounds of the model                                                     *)
(***************************************************************************)
\* number of values generateId() may hand out
MaxIds == 2
\* the clock runs from 0 to MaxNow milliseconds
MaxNow == 2000
\* one step of the clock, in milliseconds
TickStep == 500
\* the createUser calls that may reach the storage when calls run concurrently
MaxCalls == 3

(***************************************************************************)
(* Program constants                                                       *)
(***************************************************************************)
\* 24 * 60 * 60 * 1000, the default of sessionDurationMs
DefaultSessionDurationMs == 86400000
\* seconds to milliseconds: Date.now() / 1000 and exp * 1000
MsPerSecond == 1000
\* number of national digits after the country code
NationalDigits == 10
\* listUsers: options?.limit || 100
DefaultLimit == 100
\* z.string().min(1).max(255)
MaxIdLength == 255
\* formatNigerianPhone: phone.length !== 14
CanonicalLength == 14

(***************************************************************************)
(* Input domains                                                           *)
(***************************************************************************)
Standalone == "standalone"
Delegated == "delegated"

\* tenant ids: any non-empty string of at most 255 characters
Tenants == {"a", "a:b"}

\* the values generateId() returns, in order (hex strings in the source)
IdPool == <<"1f", "2e", "3d", "4c">>

\* ids of the users the IdP may hold
ClerkIds == {"c1", "c2"}

\* user ids a caller may pass to a lookup: any non-empty string
LookupIds == {"1f", "2e", "b:1f"}

\* user ids a caller may pass to a lookup in delegated mode ("zz": unknown to the IdP)
ClerkLookupIds == ClerkIds \cup {"zz"}

\* raw phone inputs; the first two have the same canonical form
RawPhones == {"08012345678", "+234 801 234 5678", "8098765432", "0801"}

NoEmail == ""
Emails == {"x@y.co", "X@y.co"}

\* displayName: any string of 1 to 255 characters; NoName: not given
NoName == ""

RoleLists == {<< >>, <<"admin">>}

\* session ids / tokens a caller may present
Tokens == {"1f", "2e", "3d", "tok1"}

\* configured sessionDurationMs (0 stands for "not configured")
Durations == {0, 1000}

(***************************************************************************)
(* Strings                                                                 *)
(***************************************************************************)
Char(s, i) == SubSeq(s, i, i)

StartsWith(s, p) == Len(s) >= Len(p) /\ SubSeq(s, 1, Len(p)) = p

Digits == {"0", "1", "2", "3", "4", "5", "6", "7", "8", "9"}

IsDigits(s) == \A i \in 1..Len(s) : Char(s, i) \in Digits

\* String.prototype.toLowerCase on the letters the model uses
LowerChar(c) == IF c = "X" THEN "x" ELSE IF c = "Y" THEN "y" ELSE c

RECURSIVE ToLowerCase(_)
ToLowerCase(s) ==
    IF Len(s) = 0 THEN ""
    ELSE LowerChar(Char(s, 1)) \o ToLowerCase(SubSeq(s, 2, Len(s)))

\* input.replace(/[\s\-\(\)\.]/g, '')
Stripped == {" ", "-", "(", ")", "."}

RECURSIVE Clean(_)
Clean(s) ==
    IF Len(s) = 0 THEN ""
    ELSE IF Char(s, 1) \in Stripped THEN Clean(SubSeq(s, 2, Len(s)))
    ELSE Char(s, 1) \o Clean(SubSeq(s, 2, Len(s)))

PhoneOk(p) == [ok |-> TRUE, value |-> p]
PhoneErr == [ok |-> FALSE, value |-> ""]

\* normalizeNigerianPhone as it would be if it returned an input that is in
\* E.164 form after cleaning as it was given
normalizeNigerianPhoneKeepingInput(input) ==
    LET cleaned == Clean(input) IN
    IF StartsWith(cleaned, "+234") THEN
        LET digits == SubSeq(cleaned, 5, Len(cleaned)) IN
        IF Len(digits) = NationalDigits /\ IsDigits(digits)
        THEN PhoneOk(input) ELSE PhoneErr
    ELSE IF StartsWith(cleaned, "234") THEN
        LET digits == SubSeq(cleaned, 4, Len(cleaned)) IN
        IF Len(digits) = NationalDigits /\ IsDigits(digits)
        THEN PhoneOk("+" \o cleaned) ELSE PhoneErr
    ELSE IF StartsWith(cleaned, "0") /\ Len(cleaned) = NationalDigits + 1
            /\ IsDigits(cleaned)
        THEN PhoneOk("+234" \o SubSeq(cleaned, 2, Len(cleaned)))
    ELSE IF Len(cleaned) = NationalDigits /\ IsDigits(cleaned)
        THEN PhoneOk("+234" \o cleaned)
    ELSE PhoneErr

normalizeNigerianPhone(input) ==
    LET cleaned == Clean(input) IN
    IF StartsWith(cleaned, "+234") THEN
        LET digits == SubSeq(cleaned, 5, Len(cleaned)) IN
        IF Len(digits) = NationalDigits /\ IsDigits(digits)
        THEN PhoneOk(cleaned) ELSE PhoneErr
    ELSE IF StartsWith(cleaned, "234") THEN
        LET digits == SubSeq(cleaned, 4, Len(cleaned)) IN
        IF Len(digits) = NationalDigits /\ IsDigits(digits)
        THEN PhoneOk("+" \o cleaned) ELSE PhoneErr
    ELSE IF StartsWith(cleaned, "0") /\ Len(cleaned) = NationalDigits + 1
            /\ IsDigits(cleaned)
        THEN PhoneOk("+234" \o SubSeq(cleaned, 2, Len(cleaned)))
    ELSE IF Len(cleaned) = NationalDigits /\ IsDigits(cleaned)
        THEN PhoneOk("+234" \o cleaned)
    ELSE PhoneErr

isValidNigerianPhone(input) == normalizeNigerianPhone(input).ok

formatNigerianPhone(phone) ==
    IF ~StartsWith(phone, "+234") \/ Len(phone) # CanonicalLength THEN PhoneErr
    ELSE LET digits == SubSeq(phone, 5, Len(phone)) IN
         PhoneOk("+234 " \o SubSeq(digits, 1, 3) \o " " \o SubSeq(digits, 4, 6)
                         \o " " \o SubSeq(digits, 7, Len(digits)))

(***************************************************************************)
(* Input validation                                                        *)
(***************************************************************************)
\* the id schemas as they would be without the upper bound on the length
ValidIdUnbounded(s) == Len(s) >= 1
\* TenantIdSchema, UserIdSchema, SessionIdSchema: z.string().min(1).max(255)
ValidId(s) == Len(s) >= 1 /\ Len(s) <= MaxIdLength

\* what validate() throws: a ZodError
InvalidInput == "ZodError"

(***************************************************************************)
(* State                                                                   *)
(***************************************************************************)
VARIABLES
    mode,               \* Delegated iff config.clerkAdapter is set
    sessionDurationMs,  \* IdentityService.sessionDurationMs
    now,                \* the clock: Date.now() / new Date(), in ms
    idCount,            \* number of values generateId() has returned
    users,              \* InMemoryUserStorage.users, in insertion order
    sessions,           \* InMemorySessionStorage.sessions
    cSessions,          \* MockClerkAdapter.sessions
    cUsers,             \* MockClerkAdapter.users
    emailIndex,         \* MockClerkAdapter.emailIndex
    phoneIndex,         \* MockClerkAdapter.phoneIndex
    orgMembers,         \* MockClerkAdapter.orgMembers (sets in insertion order)
    res,                \* outcome of the last operation of the service
    issued,             \* history: the context of every session authenticate issued
    revoked,            \* history: sessions removed by logout, logoutAll, deleteUser
    evicted,            \* history: sessions removed by validateSession
    admitted,           \* history: <<token, profile>> of every resolveIdentity that
                        \* passed the Membership Guard
    pending             \* createUser calls suspended at their first await

localVars == <<users, sessions, idCount>>
clerkVars == <<cSessions, cUsers, emailIndex, phoneIndex, orgMembers>>
histVars == <<issued, revoked, evicted, admitted>>
vars == <<mode, sessionDurationMs, now, idCount, users, sessions, cSessions,
          cUsers, emailIndex, phoneIndex, orgMembers, res, issued, revoked,
          evicted, admitted, pending>>

(***************************************************************************)
(* Maps                                                                    *)
(***************************************************************************)
\* a Map whose iteration order is not observed: a function
EmptyFn == [x \in {} |-> x]
FnSet(f, k, v) == [x \in (DOMAIN f) \cup {k} |-> IF x = k THEN v ELSE f[x]]
FnDelete(f, k) == [x \in (DOMAIN f) \ {k} |-> f[x]]

\* a Map whose iteration order is observed: the entries in insertion order
MapHas(m, k) == \E i \in 1..Len(m) : m[i].key = k
MapGet(m, k) == m[CHOOSE i \in 1..Len(m) : m[i].key = k].val
MapSet(m, k, v) ==
    IF MapHas(m, k)
    THEN [i \in 1..Len(m) |-> IF m[i].key = k THEN [key |-> k, val |-> v] ELSE m[i]]
    ELSE Append(m, [key |-> k, val |-> v])
MapDeleteTest(e, k) == e.key # k
MapDelete(m, k) == SelectSeq(m, LAMBDA e : MapDeleteTest(e, k))

(***************************************************************************)
(* InMemoryUserStorage                                                     *)
(***************************************************************************)
\* getKey as it would be if the tenant were left out of the key
getKeyWithoutTenant(tenantId, userId) == userId
getKey(tenantId, userId) == tenantId \o ":" \o userId
getPhoneKey(tenantId, phone) == tenantId \o ":phone:" \o phone
getEmailKey(tenantId, email) == tenantId \o ":email:" \o ToLowerCase(email)

\* this.users.get(key) || null, as a list of zero or one profile
StorageGet(m, key) == IF MapHas(m, key) THEN <<MapGet(m, key)>> ELSE << >>

StorageGetUser(m, tenantId, userId) == StorageGet(m, getKey(tenantId, userId))
\* getUserByPhone as it would be if the phone were looked up across tenants
StorageGetUserByPhoneAnyTenant(m, tenantId, phone) ==
    LET hits == SelectSeq(m, LAMBDA e : e.val.phone = phone)
    IN  IF hits = << >> THEN << >> ELSE <<Head(hits).val>>
StorageGetUserByPhone(m, tenantId, phone) == StorageGet(m, getPhoneKey(tenantId, phone))
StorageGetUserByEmail(m, tenantId, email) == StorageGet(m, getEmailKey(tenantId, email))

StorageCreateUser(m, profile) ==
    LET key == getKey(profile.tenantId, profile.userId)
        phoneKey == getPhoneKey(profile.tenantId, profile.phone)
        m1 == MapSet(MapSet(m, key, profile), phoneKey, profile)
    IN  IF MapHas(m, key) THEN [ok |-> FALSE, error |-> "User already exists", users |-> m]
        ELSE IF MapHas(m, phoneKey)
             THEN [ok |-> FALSE, error |-> "Phone number already registered", users |-> m]
        ELSE [ok |-> TRUE, error |-> "",
              users |-> IF profile.email # NoEmail
                        THEN MapSet(m1, getEmailKey(profile.tenantId, profile.email), profile)
                        ELSE m1]

\* updates: [setEmail |-> BOOLEAN, email |-> ..., setName |-> BOOLEAN, name |-> ...];
\* setEmail is "the patch has the key email" (with NoEmail for an explicit
\* undefined), setName the same for displayName; metadata, the third key of
\* the patch, is carried by the same spread as displayName
StorageUpdateUser(m, tenantId, userId, updates, time) ==
    LET key == getKey(tenantId, userId) IN
    IF ~MapHas(m, key) THEN [ok |-> FALSE, error |-> "User not found", users |-> m, out |-> << >>]
    ELSE LET existing == MapGet(m, key)
             updated == [userId |-> existing.userId,
                         tenantId |-> existing.tenantId,
                         phone |-> existing.phone,
                         email |-> IF updates.setEmail THEN updates.email ELSE existing.email,
                         displayName |-> IF updates.setName THEN updates.name
                                         ELSE existing.displayName,
                         createdAt |-> existing.createdAt,
                         updatedAt |-> time]
         IN  [ok |-> TRUE, error |-> "", users |-> MapSet(m, key, updated), out |-> <<updated>>]

StorageDeleteUser(m, tenantId, userId) ==
    LET key == getKey(tenantId, userId) IN
    IF ~MapHas(m, key) THEN m
    ELSE LET user == MapGet(m, key)
             m1 == MapDelete(MapDelete(m, key), getPhoneKey(tenantId, user.phone))
         IN  IF user.email # NoEmail
             THEN MapDelete(m1, getEmailKey(tenantId, user.email))
             ELSE m1

\* the loop of listUsers: the first value of each userId among the values
\* whose tenantId is the requested one, in iteration order
RECURSIVE TenantUsers(_, _, _)
TenantUsers(m, tenantId, seen) ==
    IF m = << >> THEN << >>
    ELSE LET user == Head(m).val IN
         IF user.tenantId = tenantId /\ user.userId \notin seen
         THEN <<user>> \o TenantUsers(Tail(m), tenantId, seen \cup {user.userId})
         ELSE TenantUsers(Tail(m), tenantId, seen)

\* Array.prototype.slice(from, to) for 0 <= from
Slice(s, from, to) ==
    LET lo == IF from > Len(s) THEN Len(s) ELSE from
        hi == IF to > Len(s) THEN Len(s) ELSE to
    IN  IF hi <= lo THEN << >> ELSE SubSeq(s, lo + 1, hi)

StorageListUsers(m, tenantId, limit, offset) ==
    Slice(TenantUsers(m, tenantId, {}), offset, offset + limit)

(***************************************************************************)
(* InMemorySessionStorage                                                  *)
(***************************************************************************)
\* createSession as it would be if it keyed the record by the user
SessionCreateByUser(ss, context) == FnSet(ss, context.userId, context)
SessionCreate(ss, context) == FnSet(ss, context.sessionId, context)
\* getSession as it would be if the stored context lost its roles
SessionGetWithoutRoles(ss, sessionId) ==
    IF sessionId \in DOMAIN ss THEN <<[ss[sessionId] EXCEPT !.roles = << >>]>> ELSE << >>
SessionGet(ss, sessionId) == IF sessionId \in DOMAIN ss THEN <<ss[sessionId]>> ELSE << >>
\* deleteSession as it would be if it removed nothing
SessionDeleteNothing(ss, sessionId) == ss
SessionDelete(ss, sessionId) == FnDelete(ss, sessionId)
UserSessionIds(ss, tenantId, userId) ==
    {k \in DOMAIN ss : ss[k].tenantId = tenantId /\ ss[k].userId = userId}
\* deleteUserSessions as it would be if it matched the userId alone
SessionDeleteByUserId(ss, tenantId, userId) ==
    [k \in {j \in DOMAIN ss : ss[j].userId # userId} |-> ss[k]]
SessionDeleteUserSessions(ss, tenantId, userId) ==
    [k \in (DOMAIN ss) \ UserSessionIds(ss, tenantId, userId) |-> ss[k]]

(***************************************************************************)
(* MockClerkAdapter, clerkUserToProfile, extractTenantContext              *)
(***************************************************************************)
NoId == ""

\* the ClerkUser records the IdP may be given (addUser); none has a firstName
\* or a lastName
ClerkCatalog ==
    { [id |-> "c1",
       primaryEmailAddressId |-> "e1",
       primaryPhoneNumberId |-> "p1",
       emailAddresses |-> <<[id |-> "e1", emailAddress |-> "x@y.co"]>>,
       phoneNumbers |-> <<[id |-> "p1", phoneNumber |-> "+2348012345678"]>>,
       createdAt |-> 0, updatedAt |-> 0],
      [id |-> "c2",
       primaryEmailAddressId |-> NoId,
       primaryPhoneNumberId |-> NoId,
       emailAddresses |-> <<[id |-> "e1", emailAddress |-> "X@y.co"]>>,
       phoneNumbers |-> <<[id |-> "p1", phoneNumber |-> "+2348098765432"]>>,
       createdAt |-> 0, updatedAt |-> 0] }

\* the claims a token may be registered with (addSession); iat, exp in seconds
ClaimsCatalog ==
    { [sub |-> "c1", sid |-> "s1", org_id |-> "a", org_role |-> "admin",
       metaRoles |-> << >>, iat |-> 0, exp |-> 1],
      [sub |-> "c2", sid |-> "s2", org_id |-> "a:b", org_role |-> "",
       metaRoles |-> <<"billing">>, iat |-> 0, exp |-> 1] }

ClerkTokens == {"tok1"}

\* the state of one adapter
ClerkState == [sessions |-> cSessions, users |-> cUsers, emailIndex |-> emailIndex,
               phoneIndex |-> phoneIndex, orgMembers |-> orgMembers]

RECURSIVE IndexAll(_, _, _)
\* for (const e of list) index.set(KeyOf(e), id)
IndexAll(index, keys, id) ==
    IF keys = << >> THEN index
    ELSE IndexAll(FnSet(index, Head(keys), id), Tail(keys), id)

RECURSIVE UnindexAll(_, _)
UnindexAll(index, keys) ==
    IF keys = << >> THEN index
    ELSE UnindexAll(FnDelete(index, Head(keys)), Tail(keys))

EmailKeys(user) ==
    [i \in 1..Len(user.emailAddresses) |-> ToLowerCase(user.emailAddresses[i].emailAddress)]
PhoneKeys(user) ==
    [i \in 1..Len(user.phoneNumbers) |-> user.phoneNumbers[i].phoneNumber]

ClerkAddUser(c, user) ==
    [c EXCEPT !.users = FnSet(c.users, user.id, user),
              !.emailIndex = IndexAll(c.emailIndex, EmailKeys(user), user.id),
              !.phoneIndex = IndexAll(c.phoneIndex, PhoneKeys(user), user.id)]

ClerkRemoveUser(c, userId) ==
    IF userId \notin DOMAIN c.users THEN c
    ELSE LET user == c.users[userId] IN
         [c EXCEPT !.users = FnDelete(c.users, userId),
                   !.emailIndex = UnindexAll(c.emailIndex, EmailKeys(user)),
                   !.phoneIndex = UnindexAll(c.phoneIndex, PhoneKeys(user))]

\* orgMembers.get(orgId).add(userId): a Set keeps insertion order
ClerkAddOrgMember(c, orgId, userId) ==
    LET old == IF orgId \in DOMAIN c.orgMembers THEN c.orgMembers[orgId] ELSE << >>
        new == IF \E i \in 1..Len(old) : old[i] = userId THEN old ELSE Append(old, userId)
    IN  [c EXCEPT !.orgMembers = FnSet(c.orgMembers, orgId, new)]

\* [claims |-> zero or one claims, sessions |-> the sessions afterwards]
\* an iat or exp that is not a number (missing, NaN): every comparison with it
\* is false and every product with it is not a number either
NotANumber == -1

ClerkExpired(claims, time) ==
    claims.exp # NotANumber /\ claims.exp < (time \div MsPerSecond)

\* new Date(seconds * 1000), as its time value; an Invalid Date has none
DateOfSeconds(seconds) ==
    IF seconds = NotANumber THEN NotANumber ELSE seconds * MsPerSecond
ClerkVerifySession(c, sessionToken, time) ==
    IF sessionToken \notin DOMAIN c.sessions
    THEN [claims |-> << >>, sessions |-> c.sessions]
    ELSE LET claims == c.sessions[sessionToken] IN
         IF ClerkExpired(claims, time)
         THEN [claims |-> << >>, sessions |-> FnDelete(c.sessions, sessionToken)]
         ELSE [claims |-> <<claims>>, sessions |-> c.sessions]

ClerkGetUser(c, userId) ==
    IF userId \in DOMAIN c.users THEN <<c.users[userId]>> ELSE << >>

ClerkGetUserByEmail(c, email) ==
    LET k == ToLowerCase(email) IN
    IF k \notin DOMAIN c.emailIndex THEN << >> ELSE ClerkGetUser(c, c.emailIndex[k])

ClerkGetUserByPhone(c, phone) ==
    IF phone \notin DOMAIN c.phoneIndex THEN << >> ELSE ClerkGetUser(c, c.phoneIndex[phone])

ExistingMember(c, userId) == userId \in DOMAIN c.users
ClerkListOrganizationMembers(c, orgId) ==
    IF orgId \notin DOMAIN c.orgMembers THEN << >>
    ELSE LET ids == SelectSeq(c.orgMembers[orgId], LAMBDA u : ExistingMember(c, u))
         IN  [i \in 1..Len(ids) |-> c.users[ids[i]]]

\* the first element of list whose id is wanted, as zero or one element
FindById(list, wanted) ==
    LET hits == SelectSeq(list, LAMBDA e : e.id = wanted)
    IN  IF hits = << >> THEN << >> ELSE <<Head(hits)>>

clerkUserToProfile(clerkUser, tenantId) ==
    LET e == FindById(clerkUser.emailAddresses, clerkUser.primaryEmailAddressId)
        p == FindById(clerkUser.phoneNumbers, clerkUser.primaryPhoneNumberId)
        primaryEmail == IF e = << >> THEN NoEmail ELSE e[1].emailAddress
        primaryPhone ==
            IF p # << >> /\ p[1].phoneNumber # "" THEN p[1].phoneNumber
            ELSE IF clerkUser.phoneNumbers # << >> /\ clerkUser.phoneNumbers[1].phoneNumber # ""
                 THEN clerkUser.phoneNumbers[1].phoneNumber
            ELSE ""
    IN  [userId |-> clerkUser.id,
         tenantId |-> tenantId,
         phone |-> primaryPhone,
         email |-> primaryEmail,
         displayName |-> NoName,
         createdAt |-> clerkUser.createdAt,
         updatedAt |-> clerkUser.updatedAt]

DefaultTenant == "default"

\* extractTenantContext as it would be if a role were listed once
extractTenantContextDistinct(claims) ==
    [tenantId |-> IF claims.org_id # "" THEN claims.org_id ELSE DefaultTenant,
     userId |-> claims.sub,
     roles |-> (IF claims.org_role # "" THEN <<claims.org_role>> ELSE << >>)
               \o SelectSeq(claims.metaRoles, LAMBDA r : r # claims.org_role),
     sessionId |-> claims.sid,
     issuedAt |-> DateOfSeconds(claims.iat),
     expiresAt |-> DateOfSeconds(claims.exp)]

\* extractTenantContext as it would be if it passed org_id on as it is
extractTenantContextNoDefault(claims) ==
    [tenantId |-> claims.org_id,
     userId |-> claims.sub,
     roles |-> (IF claims.org_role # "" THEN <<claims.org_role>> ELSE << >>)
               \o claims.metaRoles,
     sessionId |-> claims.sid,
     issuedAt |-> DateOfSeconds(claims.iat),
     expiresAt |-> DateOfSeconds(claims.exp)]

extractTenantContext(claims) ==
    [tenantId |-> IF claims.org_id # "" THEN claims.org_id ELSE DefaultTenant,
     userId |-> claims.sub,
     roles |-> (IF claims.org_role # "" THEN <<claims.org_role>> ELSE << >>)
               \o claims.metaRoles,
     sessionId |-> claims.sid,
     issuedAt |-> DateOfSeconds(claims.iat),
     expiresAt |-> DateOfSeconds(claims.exp)]

(***************************************************************************)
(* IdentityService: the outcome of each operation as a function of the     *)
(* stores it reads                                                         *)
(***************************************************************************)
\* the outcome of an operation.  kind: "ok", "absent", "valid", "invalid" or
\* "error" (the operation threw); member: the Membership Guard's answer in
\* this call ("none" when it was not consulted)
Outcome(kind, reason, profiles, member, calls) ==
    [kind |-> kind, reason |-> reason, profiles |-> profiles,
     member |-> member, calls |-> calls]

Found(profiles, member, calls) ==
    Outcome(IF profiles = << >> THEN "absent" ELSE "ok", "", profiles, member, calls)

\* validate() threw: no collaborator has been called
Rejected == Outcome("error", InvalidInput, << >>, "none", << >>)

ConfigDuration(d) == IF d = 0 THEN DefaultSessionDurationMs ELSE d

\* the Membership Guard as it would be if a failing directory meant "member"
isUserInTenantAssumeMember(c, tenantId, userId, dirFails) ==
    IF dirFails THEN "yes"
    ELSE LET members == ClerkListOrganizationMembers(c, tenantId) IN
         IF \E i \in 1..Len(members) : members[i].id = userId THEN "yes" ELSE "no"

\* dirFails: the call of listOrganizationMembers rejects
\* "yes", "no", or "threw" when the rejection propagates
isUserInTenant(c, tenantId, userId, dirFails) ==
    IF dirFails THEN "threw"
    ELSE LET members == ClerkListOrganizationMembers(c, tenantId) IN
         IF \E i \in 1..Len(members) : members[i].id = userId THEN "yes" ELSE "no"

DirectoryError == "listOrganizationMembers failed"

\* getUser as it would be without the Membership Guard in delegated mode
SvcGetUserUnguarded(md, m, c, tenantId, userId, dirFails) ==
    IF ~(ValidId(tenantId) /\ ValidId(userId)) THEN Rejected
    ELSE IF md = Delegated THEN
        LET clerkUser == ClerkGetUser(c, userId) IN
        Found([i \in 1..Len(clerkUser) |-> clerkUserToProfile(clerkUser[i], tenantId)],
              "none", <<"clerk.getUser">>)
    ELSE Found(StorageGetUser(m, tenantId, userId), "none", <<"userStorage.getUser">>)

SvcGetUser(md, m, c, tenantId, userId, dirFails) ==
    IF ~(ValidId(tenantId) /\ ValidId(userId)) THEN Rejected
    ELSE IF md = Delegated THEN
        LET isMember == isUserInTenant(c, tenantId, userId, dirFails) IN
        IF isMember = "threw"
        THEN Outcome("error", DirectoryError, << >>, isMember, <<"listOrganizationMembers">>)
        ELSE IF isMember = "no"
        THEN Found(<< >>, isMember, <<"listOrganizationMembers">>)
        ELSE LET clerkUser == ClerkGetUser(c, userId) IN
             Found([i \in 1..Len(clerkUser) |-> clerkUserToProfile(clerkUser[i], tenantId)],
                   isMember, <<"listOrganizationMembers", "clerk.getUser">>)
    ELSE Found(StorageGetUser(m, tenantId, userId), "none", <<"userStorage.getUser">>)

\* the same part as it would be if a resolved key were released unchecked
GuardResolvedUnchecked(c, tenantId, clerkUser, dirFails, lookup) ==
    IF clerkUser = << >> THEN Found(<< >>, "none", <<lookup>>)
    ELSE Found(<<clerkUserToProfile(clerkUser[1], tenantId)>>, "none", <<lookup>>)

\* the part of getUserByPhone and getUserByEmail after the IdP resolved the key
GuardResolved(c, tenantId, clerkUser, dirFails, lookup) ==
    IF clerkUser = << >> THEN Found(<< >>, "none", <<lookup>>)
    ELSE LET isMember == isUserInTenant(c, tenantId, clerkUser[1].id, dirFails) IN
         IF isMember = "threw"
         THEN Outcome("error", DirectoryError, << >>, isMember,
                      <<lookup, "listOrganizationMembers">>)
         ELSE IF isMember = "no"
         THEN Found(<< >>, isMember, <<lookup, "listOrganizationMembers">>)
         ELSE Found(<<clerkUserToProfile(clerkUser[1], tenantId)>>, isMember,
                    <<lookup, "listOrganizationMembers">>)

\* getUserByPhone as it would be if it looked the phone up as it was given
SvcGetUserByPhoneRaw(md, m, c, tenantId, phone, dirFails) ==
    IF ~ValidId(tenantId) THEN Rejected
    ELSE IF ~isValidNigerianPhone(phone)
    THEN Outcome("error", "Invalid Nigerian phone number", << >>, "none", << >>)
    ELSE IF md = Delegated
    THEN GuardResolved(c, tenantId, ClerkGetUserByPhone(c, phone), dirFails,
                       "clerk.getUserByPhone")
    ELSE Found(StorageGetUserByPhone(m, tenantId, phone), "none",
               <<"userStorage.getUserByPhone">>)

SvcGetUserByPhone(md, m, c, tenantId, phone, dirFails) ==
    LET normalized == normalizeNigerianPhone(phone) IN
    IF ~ValidId(tenantId) THEN Rejected
    ELSE IF ~normalized.ok
    THEN Outcome("error", "Invalid Nigerian phone number", << >>, "none", << >>)
    ELSE IF md = Delegated
    THEN GuardResolved(c, tenantId, ClerkGetUserByPhone(c, normalized.value), dirFails,
                       "clerk.getUserByPhone")
    ELSE Found(StorageGetUserByPhone(m, tenantId, normalized.value), "none",
               <<"userStorage.getUserByPhone">>)

SvcGetUserByEmail(md, m, c, tenantId, email, dirFails) ==
    IF ~ValidId(tenantId) THEN Rejected
    ELSE IF md = Delegated
    THEN GuardResolved(c, tenantId, ClerkGetUserByEmail(c, email), dirFails,
                       "clerk.getUserByEmail")
    ELSE Found(StorageGetUserByEmail(m, tenantId, email), "none",
               <<"userStorage.getUserByEmail">>)

\* limit, offset: 0 stands for "not given" as well (options?.limit || 100)
\* an option that the caller left out (options?.limit, options?.offset undefined)
NotGiven == -1

\* options?.limit || 100 and options?.offset || 0: a limit of 0 is falsy as well
SvcListUsers(md, m, c, tenantId, limitOption, offsetOption, dirFails) ==
    LET lim == IF limitOption = NotGiven \/ limitOption = 0 THEN DefaultLimit
               ELSE limitOption
        offset == IF offsetOption = NotGiven THEN 0 ELSE offsetOption
    IN
    IF ~ValidId(tenantId) THEN Rejected
    ELSE IF md = Delegated THEN
        IF dirFails
        THEN Outcome("error", DirectoryError, << >>, "none", <<"listOrganizationMembers">>)
        ELSE LET page == Slice(ClerkListOrganizationMembers(c, tenantId), offset, offset + lim)
             IN  Outcome("ok", "", [i \in 1..Len(page) |-> clerkUserToProfile(page[i], tenantId)],
                         "none", <<"listOrganizationMembers">>)
    ELSE Outcome("ok", "", StorageListUsers(m, tenantId, lim, offset), "none",
                 <<"userStorage.listUsers">>)

\* validateSession: the validation and the stores afterwards; kind "error":
\* validate(SessionIdSchema, sessionId) threw
Validation(kind, reason, context, ss, cs, calls) ==
    [kind |-> kind, reason |-> reason, context |-> context,
     sessions |-> ss, cSessions |-> cs, calls |-> calls]

\* the expiry test as it would be if it read the wrong instant of the context
IsExpiredSinceIssue(context, time) == context.issuedAt < time
IsExpired(context, time) == context.expiresAt < time

\* validateSession as it would be if a session were good for one validation
SvcValidateSessionConsuming(md, ss, c, sessionId, time) ==
    IF ~ValidId(sessionId)
    THEN Validation("error", InvalidInput, << >>, ss, c.sessions, << >>)
    ELSE IF md = Delegated THEN
        LET v == ClerkVerifySession(c, sessionId, time) IN
        IF v.claims = << >>
        THEN Validation("invalid", "Invalid or expired session", << >>, ss, v.sessions,
                        <<"clerk.verifySession">>)
        ELSE Validation("valid", "", <<extractTenantContext(v.claims[1])>>, ss, v.sessions,
                        <<"clerk.verifySession">>)
    ELSE LET context == SessionGet(ss, sessionId) IN
         IF context = << >>
         THEN Validation("invalid", "Session not found", << >>, ss, c.sessions,
                         <<"sessionStorage.getSession">>)
         ELSE IF IsExpired(context[1], time)
         THEN Validation("invalid", "Session expired", << >>,
                         SessionDelete(ss, sessionId), c.sessions,
                         <<"sessionStorage.getSession", "sessionStorage.deleteSession">>)
         ELSE Validation("valid", "", context, SessionDelete(ss, sessionId), c.sessions,
                         <<"sessionStorage.getSession", "sessionStorage.deleteSession">>)

\* validateSession as it would be with the two standalone reasons swapped
SvcValidateSessionSwapped(md, ss, c, sessionId, time) ==
    IF ~ValidId(sessionId)
    THEN Validation("error", InvalidInput, << >>, ss, c.sessions, << >>)
    ELSE IF md = Delegated THEN
        LET v == ClerkVerifySession(c, sessionId, time) IN
        IF v.claims = << >>
        THEN Validation("invalid", "Invalid or expired session", << >>, ss, v.sessions,
                        <<"clerk.verifySession">>)
        ELSE Validation("valid", "", <<extractTenantContext(v.claims[1])>>, ss, v.sessions,
                        <<"clerk.verifySession">>)
    ELSE LET context == SessionGet(ss, sessionId) IN
         IF context = << >>
         THEN Validation("invalid", "Session expired", << >>, ss, c.sessions,
                         <<"sessionStorage.getSession">>)
         ELSE IF IsExpired(context[1], time)
         THEN Validation("invalid", "Session not found", << >>,
                         SessionDelete(ss, sessionId), c.sessions,
                         <<"sessionStorage.getSession", "sessionStorage.deleteSession">>)
         ELSE Validation("valid", "", context, ss, c.sessions,
                         <<"sessionStorage.getSession">>)

SvcValidateSession(md, ss, c, sessionId, time) ==
    IF ~ValidId(sessionId)
    THEN Validation("error", InvalidInput, << >>, ss, c.sessions, << >>)
    ELSE IF md = Delegated THEN
        LET v == ClerkVerifySession(c, sessionId, time) IN
        IF v.claims = << >>
        THEN Validation("invalid", "Invalid or expired session", << >>, ss, v.sessions,
                        <<"clerk.verifySession">>)
        ELSE Validation("valid", "", <<extractTenantContext(v.claims[1])>>, ss, v.sessions,
                        <<"clerk.verifySession">>)
    ELSE LET context == SessionGet(ss, sessionId) IN
         IF context = << >>
         THEN Validation("invalid", "Session not found", << >>, ss, c.sessions,
                         <<"sessionStorage.getSession">>)
         ELSE IF IsExpired(context[1], time)
         THEN Validation("invalid", "Session expired", << >>,
                         SessionDelete(ss, sessionId), c.sessions,
                         <<"sessionStorage.getSession", "sessionStorage.deleteSession">>)
         ELSE Validation("valid", "", context, ss, c.sessions,
                         <<"sessionStorage.getSession">>)

\* resolveIdentity: its outcome (o), the context it validated, the value it
\* returned and the validation (v) it made
Resolution(o, context, value, v) ==
    [o |-> o, context |-> context, value |-> value, v |-> v]

\* resolveIdentity as it would be if it raised assertTenantContext's error for
\* an invalid session
SvcResolveIdentityUnauthorized(md, ss, m, c, sessionToken, time, dirFails) ==
    LET v == SvcValidateSession(md, ss, c, sessionToken, time)
        c1 == [c EXCEPT !.sessions = v.cSessions]
        g == SvcGetUser(md, m, c1, v.context[1].tenantId, v.context[1].userId, dirFails)
    IN  IF v.kind = "error"
        THEN Resolution(Outcome("error", v.reason, << >>, "none", v.calls),
                        << >>, << >>, v)
        ELSE IF v.kind # "valid"
        THEN Resolution(Outcome("error", "Unauthorized: " \o v.reason, << >>, "none",
                                v.calls),
                        << >>, << >>, v)
        ELSE IF g.kind = "error"
        THEN Resolution(Outcome("error", g.reason, << >>, g.member, v.calls \o g.calls),
                        v.context, << >>, v)
        ELSE IF g.profiles = << >>
        THEN Resolution(Outcome("error", "User not found", << >>, g.member,
                                v.calls \o g.calls),
                        v.context, << >>, v)
        ELSE Resolution(Outcome("ok", "", g.profiles, g.member, v.calls \o g.calls),
                        v.context,
                        <<[userId |-> g.profiles[1].userId,
                           tenantId |-> g.profiles[1].tenantId,
                           roles |-> v.context[1].roles,
                           profile |-> g.profiles[1]]>>,
                        v)

SvcResolveIdentity(md, ss, m, c, sessionToken, time, dirFails) ==
    LET v == SvcValidateSession(md, ss, c, sessionToken, time)
        c1 == [c EXCEPT !.sessions = v.cSessions]
        g == SvcGetUser(md, m, c1, v.context[1].tenantId, v.context[1].userId, dirFails)
    IN  IF v.kind = "error"
        THEN Resolution(Outcome("error", v.reason, << >>, "none", v.calls),
                        << >>, << >>, v)
        ELSE IF v.kind # "valid"
        THEN Resolution(Outcome("error", "Invalid session: " \o v.reason, << >>, "none",
                                v.calls),
                        << >>, << >>, v)
        ELSE IF g.kind = "error"
        THEN Resolution(Outcome("error", g.reason, << >>, g.member, v.calls \o g.calls),
                        v.context, << >>, v)
        ELSE IF g.profiles = << >>
        THEN Resolution(Outcome("error", "User not found", << >>, g.member,
                                v.calls \o g.calls),
                        v.context, << >>, v)
        ELSE Resolution(Outcome("ok", "", g.profiles, g.member, v.calls \o g.calls),
                        v.context,
                        <<[userId |-> g.profiles[1].userId,
                           tenantId |-> g.profiles[1].tenantId,
                           roles |-> v.context[1].roles,
                           profile |-> g.profiles[1]]>>,
                        v)

(***************************************************************************)
(* Initial state: a freshly constructed service over empty stores          *)
(***************************************************************************)
\* what `res` holds: the operation, its arguments, its outcome (o), the
\* session context it validated and the value it returned
Result(op, tenantId, key, o, context, value) ==
    [op |-> op, tenantId |-> tenantId, key |-> key,
     kind |-> o.kind, reason |-> o.reason, profiles |-> o.profiles,
     member |-> o.member, calls |-> o.calls,
     context |-> context, value |-> value, dirFails |-> FALSE]

\* the same, of a call during which listOrganizationMembers rejects (dirFails)
ResultDir(op, tenantId, key, o, dirFails) ==
    [Result(op, tenantId, key, o, << >>, << >>) EXCEPT !.dirFails = dirFails]

Plain(kind, reason, calls) == Outcome(kind, reason, << >>, "none", calls)

\* no operation of the service was the last step
Idle == Result("idle", "", "", Plain("ok", "", << >>), << >>, << >>)

generateId == IdPool[idCount + 1]

Init ==
    /\ mode \in {Standalone, Delegated}
    /\ \E d \in Durations : sessionDurationMs = ConfigDuration(d)
    /\ now = 0
    /\ idCount = 0
    /\ users = << >>
    /\ sessions = EmptyFn
    /\ cSessions = EmptyFn
    /\ cUsers = EmptyFn
    /\ emailIndex = EmptyFn
    /\ phoneIndex = EmptyFn
    /\ orgMembers = EmptyFn
    /\ res = Idle
    /\ issued = EmptyFn
    /\ revoked = {}
    /\ evicted = {}
    /\ admitted = {}
    /\ pending = EmptyFn

(***************************************************************************)
(* The clock and the IdP's own operations (MockClerkAdapter)               *)
(***************************************************************************)
\* operations are taken one at a time: the previous outcome has been delivered
Ready == res = Idle

\* the caller receives the outcome of the operation
Return ==
    /\ res # Idle
    /\ res' = Idle
    /\ UNCHANGED <<mode, pending, sessionDurationMs, now, localVars, clerkVars, histVars>>

Tick ==
    /\ Ready
    /\ now + TickStep <= MaxNow
    /\ now' = now + TickStep
    /\ res' = Idle
    /\ UNCHANGED <<mode, pending, sessionDurationMs, localVars, clerkVars, histVars>>

SetClerk(c) ==
    /\ Ready
    /\ cSessions' = c.sessions
    /\ cUsers' = c.users
    /\ emailIndex' = c.emailIndex
    /\ phoneIndex' = c.phoneIndex
    /\ orgMembers' = c.orgMembers
    /\ res' = Idle
    /\ UNCHANGED <<mode, pending, sessionDurationMs, now, localVars, histVars>>

AddSession(token, claims) ==
    /\ mode = Delegated
    /\ SetClerk([ClerkState EXCEPT !.sessions = FnSet(cSessions, token, claims)])

RemoveSession(token) ==
    /\ mode = Delegated
    /\ token \in DOMAIN cSessions
    /\ SetClerk([ClerkState EXCEPT !.sessions = FnDelete(cSessions, token)])

AddUser(user) ==
    /\ mode = Delegated
    /\ SetClerk(ClerkAddUser(ClerkState, user))

RemoveUser(userId) ==
    /\ mode = Delegated
    /\ userId \in DOMAIN cUsers
    /\ SetClerk(ClerkRemoveUser(ClerkState, userId))

AddOrgMember(orgId, userId) ==
    /\ mode = Delegated
    /\ SetClerk(ClerkAddOrgMember(ClerkState, orgId, userId))

(***************************************************************************)
(* IdentityService: the operations                                         *)
(***************************************************************************)
NewProfile(userId, tenantId, phone, email, time) ==
    [userId |-> userId, tenantId |-> tenantId, phone |-> phone, email |-> email,
     displayName |-> NoName, createdAt |-> time, updatedAt |-> time]

CreateUser(tenantId, phone, email) ==
    LET normalized == normalizeNigerianPhone(phone)
        existing == StorageGetUserByPhone(users, tenantId, normalized.value)
        profile == NewProfile(generateId, tenantId, normalized.value, email, now)
        stored == StorageCreateUser(users, profile)
    IN  /\ Ready
        /\ IF ~ValidId(tenantId)
           THEN /\ res' = Result("createUser", tenantId, phone, Rejected, << >>, << >>)
                /\ UNCHANGED <<users, idCount>>
           ELSE IF ~isValidNigerianPhone(phone)
           THEN /\ res' = Result("createUser", tenantId, phone,
                                 Plain("error", "Invalid Nigerian phone number", << >>),
                                 << >>, << >>)
                /\ UNCHANGED <<users, idCount>>
           ELSE IF existing # << >>
           THEN /\ res' = Result("createUser", tenantId, phone,
                                 Plain("error", "User already exists in tenant",
                                       <<"userStorage.getUserByPhone">>),
                                 << >>, << >>)
                /\ UNCHANGED <<users, idCount>>
           ELSE /\ idCount < MaxIds
                /\ idCount' = idCount + 1
                /\ users' = stored.users
                /\ res' = Result("createUser", tenantId, phone,
                                 IF stored.ok
                                 THEN Outcome("ok", "", <<profile>>, "none",
                                              <<"userStorage.getUserByPhone",
                                                "userStorage.createUser">>)
                                 ELSE Plain("error", stored.error,
                                            <<"userStorage.getUserByPhone",
                                              "userStorage.createUser">>),
                                 << >>, << >>)
        /\ UNCHANGED <<mode, pending, sessionDurationMs, now, sessions, clerkVars, histVars>>

\* createUser up to its first await: the phone is normalized and the storage
\* is asked for a user of the tenant with that phone; the call then yields
CreateUserBegin(caller, tenantId, phone, email) ==
    LET normalized == normalizeNigerianPhone(phone) IN
    /\ Ready
    /\ caller \notin DOMAIN pending
    /\ IF ~ValidId(tenantId)
       THEN /\ res' = Result("createUser", tenantId, phone, Rejected, << >>, << >>)
            /\ UNCHANGED pending
       ELSE IF ~isValidNigerianPhone(phone)
       THEN /\ res' = Result("createUser", tenantId, phone,
                             Plain("error", "Invalid Nigerian phone number", << >>),
                             << >>, << >>)
            /\ UNCHANGED pending
       ELSE /\ pending' = FnSet(pending, caller,
                                [op |-> "createUser", tenantId |-> tenantId, raw |-> phone,
                                 phone |-> normalized.value, email |-> email,
                                 existing |-> StorageGetUserByPhone(users, tenantId,
                                                                    normalized.value)])
            /\ UNCHANGED res
    /\ UNCHANGED <<mode, sessionDurationMs, now, localVars, clerkVars, histVars>>

\* createUser from its first await on: the answer read before the await decides
\* whether the call throws; otherwise the id is generated and the profile is
\* handed to the storage, which checks its keys again
CreateUserFinish(caller) ==
    LET call == pending[caller]
        profile == NewProfile(generateId, call.tenantId, call.phone, call.email, now)
        stored == StorageCreateUser(users, profile)
    IN  /\ Ready
        /\ caller \in DOMAIN pending
        /\ call.op = "createUser"
        /\ pending' = FnDelete(pending, caller)
        /\ IF call.existing # << >>
           THEN /\ res' = Result("createUser", call.tenantId, call.raw,
                                 Plain("error", "User already exists in tenant",
                                       <<"userStorage.getUserByPhone">>),
                                 << >>, << >>)
                /\ UNCHANGED <<users, idCount>>
           ELSE /\ idCount < MaxCalls
                /\ idCount' = idCount + 1
                /\ users' = stored.users
                /\ res' = Result("createUser", call.tenantId, call.raw,
                                 IF stored.ok
                                 THEN Outcome("ok", "", <<profile>>, "none",
                                              <<"userStorage.getUserByPhone",
                                                "userStorage.createUser">>)
                                 ELSE Plain("error", stored.error,
                                            <<"userStorage.getUserByPhone",
                                              "userStorage.createUser">>),
                                 << >>, << >>)
        /\ UNCHANGED <<mode, sessionDurationMs, now, sessions, clerkVars, histVars>>

\* createUser called with a roles list: CreateUserInputSchema validates it
\* (an array of RoleIdSchema strings) and createUser never reads it
CreateUserWithRoles(tenantId, phone, email, roles) ==
    IF \E i \in DOMAIN roles : ~ValidId(roles[i])
    THEN /\ Ready
         /\ res' = Result("createUser", tenantId, phone, Rejected, << >>, << >>)
         /\ UNCHANGED <<admitted, mode, pending, sessionDurationMs, now, localVars,
                        clerkVars, issued, revoked, evicted>>
    ELSE CreateUser(tenantId, phone, email)

ReadOnly == UNCHANGED <<mode, pending, sessionDurationMs, now, localVars, clerkVars, histVars>>

GetUser(tenantId, userId, dirFails) ==
    /\ Ready
    /\ res' = ResultDir("getUser", tenantId, userId,
                        SvcGetUser(mode, users, ClerkState, tenantId, userId, dirFails),
                        mode = Delegated /\ dirFails)
    /\ ReadOnly

GetUserByPhone(tenantId, phone, dirFails) ==
    /\ Ready
    /\ res' = ResultDir("getUserByPhone", tenantId, phone,
                        SvcGetUserByPhone(mode, users, ClerkState, tenantId, phone, dirFails),
                        mode = Delegated /\ dirFails)
    /\ ReadOnly

GetUserByEmail(tenantId, email, dirFails) ==
    /\ Ready
    /\ res' = ResultDir("getUserByEmail", tenantId, email,
                        SvcGetUserByEmail(mode, users, ClerkState, tenantId, email, dirFails),
                        mode = Delegated /\ dirFails)
    /\ ReadOnly

ListUsers(tenantId, limit, offset, dirFails) ==
    /\ Ready
    /\ res' = ResultDir("listUsers", tenantId, <<limit, offset>>,
                        SvcListUsers(mode, users, ClerkState, tenantId, limit, offset, dirFails),
                        mode = Delegated /\ dirFails)
    /\ ReadOnly

\* the phone utilities, called on their own
PhoneThrows(input) ==
    Plain("error", "Invalid Nigerian phone number", << >>)

NormalizePhone(input) ==
    LET n == normalizeNigerianPhone(input) IN
    /\ Ready
    /\ res' = Result("normalizeNigerianPhone", "", input,
                     IF n.ok THEN Plain("ok", "", << >>) ELSE PhoneThrows(input),
                     << >>, IF n.ok THEN <<n.value>> ELSE << >>)
    /\ ReadOnly

IsValidPhone(input) ==
    /\ Ready
    /\ res' = Result("isValidNigerianPhone", "", input, Plain("ok", "", << >>),
                     << >>, <<isValidNigerianPhone(input)>>)
    /\ ReadOnly

FormatPhone(phone) ==
    LET f == formatNigerianPhone(phone) IN
    /\ Ready
    /\ res' = Result("formatNigerianPhone", "", phone,
                     IF f.ok THEN Plain("ok", "", << >>)
                     ELSE Plain("error", "Invalid E.164 Nigerian phone number", << >>),
                     << >>, IF f.ok THEN <<f.value>> ELSE << >>)
    /\ ReadOnly

\* normalize(x), normalize of it, format of it and normalize of the display
\* form, each as far as the call before it succeeded
PhoneRoundTrip(input) ==
    LET n == normalizeNigerianPhone(input)
        again == IF n.ok THEN <<normalizeNigerianPhone(n.value)>> ELSE << >>
        shown == IF n.ok THEN <<formatNigerianPhone(n.value)>> ELSE << >>
        back == IF shown # << >> /\ shown[1].ok
                THEN <<normalizeNigerianPhone(shown[1].value)>> ELSE << >>
    IN  /\ Ready
        /\ res' = Result("roundTrip", "", input,
                         IF n.ok THEN Plain("ok", "", << >>) ELSE PhoneThrows(input),
                         << >>,
                         IF n.ok
                         THEN <<[normalized |-> n.value, again |-> again,
                                 shown |-> shown, back |-> back]>>
                         ELSE << >>)
        /\ ReadOnly

UpdateUser(tenantId, userId, updates) ==
    LET u == StorageUpdateUser(users, tenantId, userId, updates, now)
        valid == ValidId(tenantId) /\ ValidId(userId)
    IN
    /\ Ready
    /\ users' = IF valid THEN u.users ELSE users
    /\ res' = Result("updateUser", tenantId, userId,
                     IF ~valid THEN Rejected
                     ELSE IF u.ok
                     THEN Outcome("ok", "", u.out, "none", <<"userStorage.updateUser">>)
                     ELSE Plain("error", u.error, <<"userStorage.updateUser">>),
                     << >>, << >>)
    /\ UNCHANGED <<mode, pending, sessionDurationMs, now, idCount, sessions, clerkVars, histVars>>

DeleteUser(tenantId, userId) ==
    /\ Ready
    /\ IF ~(ValidId(tenantId) /\ ValidId(userId))
       THEN /\ res' = Result("deleteUser", tenantId, userId, Rejected, << >>, << >>)
            /\ UNCHANGED <<sessions, users, revoked>>
       ELSE /\ sessions' = SessionDeleteUserSessions(sessions, tenantId, userId)
            /\ users' = StorageDeleteUser(users, tenantId, userId)
            /\ revoked' = revoked \cup UserSessionIds(sessions, tenantId, userId)
            /\ res' = Result("deleteUser", tenantId, userId,
                             Plain("ok", "", <<"sessionStorage.deleteUserSessions",
                                               "userStorage.deleteUser">>),
                             << >>, << >>)
    /\ UNCHANGED <<admitted, mode, pending, sessionDurationMs, now, idCount, clerkVars, issued, evicted>>

Authenticate(tenantId, phone, roles) ==
    LET normalized == normalizeNigerianPhone(phone)
        user == StorageGetUserByPhone(users, tenantId, normalized.value)
        sessionId == generateId
        sessionContext == [sessionId |-> sessionId,
                           userId |-> user[1].userId,
                           tenantId |-> user[1].tenantId,
                           roles |-> roles,
                           issuedAt |-> now,
                           expiresAt |-> now + sessionDurationMs]
    IN  /\ Ready
        /\ IF ~ValidId(tenantId)
           THEN /\ res' = Result("authenticate", tenantId, phone, Rejected, << >>, << >>)
                /\ UNCHANGED <<sessions, idCount, issued>>
           ELSE IF ~isValidNigerianPhone(phone)
           THEN /\ res' = Result("authenticate", tenantId, phone,
                                 Plain("error", "Invalid Nigerian phone number", << >>),
                                 << >>, << >>)
                /\ UNCHANGED <<sessions, idCount, issued>>
           ELSE IF user = << >>
           THEN /\ res' = Result("authenticate", tenantId, phone,
                                 Plain("error", "Invalid credentials",
                                       <<"userStorage.getUserByPhone">>),
                                 << >>, << >>)
                /\ UNCHANGED <<sessions, idCount, issued>>
           ELSE /\ idCount < MaxIds
                /\ idCount' = idCount + 1
                /\ sessions' = SessionCreate(sessions, sessionContext)
                /\ issued' = FnSet(issued, sessionId, sessionContext)
                /\ res' = Result("authenticate", tenantId, phone,
                                 Plain("ok", "", <<"userStorage.getUserByPhone",
                                                   "sessionStorage.createSession">>),
                                 << >>,
                                 <<[userId |-> user[1].userId,
                                    tenantId |-> user[1].tenantId,
                                    sessionId |-> sessionId,
                                    roles |-> roles,
                                    expiresAt |-> sessionContext.expiresAt]>>)
        /\ UNCHANGED <<admitted, mode, pending, sessionDurationMs, now, users, clerkVars, revoked, evicted>>

\* deleteUser up to the return of its first await: the sessions of the user
\* are removed; the call then yields
DeleteUserBegin(caller, tenantId, userId) ==
    /\ Ready
    /\ caller \notin DOMAIN pending
    /\ IF ~(ValidId(tenantId) /\ ValidId(userId))
       THEN /\ res' = Result("deleteUser", tenantId, userId, Rejected, << >>, << >>)
            /\ UNCHANGED <<sessions, revoked, pending>>
       ELSE /\ sessions' = SessionDeleteUserSessions(sessions, tenantId, userId)
            /\ revoked' = revoked \cup UserSessionIds(sessions, tenantId, userId)
            /\ pending' = FnSet(pending, caller,
                                [op |-> "deleteUser", tenantId |-> tenantId,
                                 userId |-> userId])
            /\ UNCHANGED res
    /\ UNCHANGED <<admitted, mode, sessionDurationMs, now, idCount, users, clerkVars, issued,
                   evicted>>

\* deleteUser from its first await on: the user is removed from the storage
DeleteUserFinish(caller) ==
    LET call == pending[caller] IN
    /\ Ready
    /\ caller \in DOMAIN pending
    /\ call.op = "deleteUser"
    /\ pending' = FnDelete(pending, caller)
    /\ users' = StorageDeleteUser(users, call.tenantId, call.userId)
    /\ res' = Result("deleteUser", call.tenantId, call.userId,
                     Plain("ok", "", <<"sessionStorage.deleteUserSessions",
                                       "userStorage.deleteUser">>),
                     << >>, << >>)
    /\ UNCHANGED <<mode, sessionDurationMs, now, idCount, sessions, clerkVars, histVars>>

\* authenticate up to the return of its first await: the phone is normalized
\* and the storage is asked for the user; the call then yields
AuthenticateBegin(caller, tenantId, phone, roles) ==
    LET normalized == normalizeNigerianPhone(phone) IN
    /\ Ready
    /\ caller \notin DOMAIN pending
    /\ IF ~ValidId(tenantId)
       THEN /\ res' = Result("authenticate", tenantId, phone, Rejected, << >>, << >>)
            /\ UNCHANGED pending
       ELSE IF ~isValidNigerianPhone(phone)
       THEN /\ res' = Result("authenticate", tenantId, phone,
                             Plain("error", "Invalid Nigerian phone number", << >>),
                             << >>, << >>)
            /\ UNCHANGED pending
       ELSE /\ pending' = FnSet(pending, caller,
                                [op |-> "authenticate", tenantId |-> tenantId,
                                 raw |-> phone, roles |-> roles,
                                 user |-> StorageGetUserByPhone(users, tenantId,
                                                                normalized.value)])
            /\ UNCHANGED res
    /\ UNCHANGED <<mode, sessionDurationMs, now, localVars, clerkVars, histVars>>

\* authenticate from its first await on: the user read before the await decides
\* whether the call throws; otherwise the session is created for that user
AuthenticateFinish(caller) ==
    LET call == pending[caller]
        sessionId == generateId
        sessionContext == [sessionId |-> sessionId,
                           userId |-> call.user[1].userId,
                           tenantId |-> call.user[1].tenantId,
                           roles |-> call.roles,
                           issuedAt |-> now,
                           expiresAt |-> now + sessionDurationMs]
    IN  /\ Ready
        /\ caller \in DOMAIN pending
        /\ call.op = "authenticate"
        /\ pending' = FnDelete(pending, caller)
        /\ IF call.user = << >>
           THEN /\ res' = Result("authenticate", call.tenantId, call.raw,
                                 Plain("error", "Invalid credentials",
                                       <<"userStorage.getUserByPhone">>),
                                 << >>, << >>)
                /\ UNCHANGED <<sessions, idCount, issued>>
           ELSE /\ idCount < MaxIds
                /\ idCount' = idCount + 1
                /\ sessions' = SessionCreate(sessions, sessionContext)
                /\ issued' = FnSet(issued, sessionId, sessionContext)
                /\ res' = Result("authenticate", call.tenantId, call.raw,
                                 Plain("ok", "", <<"userStorage.getUserByPhone",
                                                   "sessionStorage.createSession">>),
                                 << >>,
                                 <<[userId |-> call.user[1].userId,
                                    tenantId |-> call.user[1].tenantId,
                                    sessionId |-> sessionId,
                                    roles |-> call.roles,
                                    expiresAt |-> sessionContext.expiresAt]>>)
        /\ UNCHANGED <<admitted, mode, sessionDurationMs, now, users, clerkVars, revoked, evicted>>

\* what validateSession, resolveIdentity and assertTenantContext leave behind
AfterValidation(sessionId, v) ==
    /\ Ready
    /\ sessions' = v.sessions
    /\ cSessions' = v.cSessions
    /\ evicted' = IF v.sessions # sessions THEN evicted \cup {sessionId} ELSE evicted
    /\ UNCHANGED <<mode, pending, sessionDurationMs, now, idCount, users, cUsers, emailIndex,
                   phoneIndex, orgMembers, issued, revoked>>

ValidateSession(sessionId) ==
    LET v == SvcValidateSession(mode, sessions, ClerkState, sessionId, now) IN
    /\ res' = Result("validateSession", "", sessionId,
                     Plain(v.kind, v.reason, v.calls), v.context, << >>)
    /\ AfterValidation(sessionId, v)
    /\ UNCHANGED admitted

\* validateSession, standalone branch, up to the return of
\* `await this.sessionStorage.getSession(sessionId)`
ValidateSessionBegin(caller, sessionId) ==
    /\ Ready
    /\ mode = Standalone
    /\ caller \notin DOMAIN pending
    /\ IF ~ValidId(sessionId)
       THEN /\ res' = Result("validateSession", "", sessionId, Rejected, << >>, << >>)
            /\ UNCHANGED pending
       ELSE /\ pending' = FnSet(pending, caller,
                                [op |-> "validateSession", sessionId |-> sessionId,
                                 context |-> SessionGet(sessions, sessionId)])
            /\ UNCHANGED res
    /\ UNCHANGED <<mode, sessionDurationMs, now, localVars, clerkVars, histVars>>

\* validateSession as it would be if evicting a record that is no longer
\* stored raised
ValidateSessionFinishStrict(caller) ==
    LET call == pending[caller]
        expired == call.context # << >> /\ IsExpired(call.context[1], now)
        gone == expired /\ call.sessionId \notin DOMAIN sessions
        kept == IF expired THEN SessionDelete(sessions, call.sessionId) ELSE sessions
    IN  /\ Ready
        /\ caller \in DOMAIN pending
        /\ call.op = "validateSession"
        /\ pending' = FnDelete(pending, caller)
        /\ sessions' = kept
        /\ evicted' = IF kept # sessions THEN evicted \cup {call.sessionId} ELSE evicted
        /\ res' = Result("validateSession", "", call.sessionId,
                         IF call.context = << >>
                         THEN Plain("invalid", "Session not found",
                                    <<"sessionStorage.getSession">>)
                         ELSE IF gone
                         THEN Plain("error", "Session not found",
                                    <<"sessionStorage.getSession",
                                      "sessionStorage.deleteSession">>)
                         ELSE IF expired
                         THEN Plain("invalid", "Session expired",
                                    <<"sessionStorage.getSession",
                                      "sessionStorage.deleteSession">>)
                         ELSE Plain("valid", "", <<"sessionStorage.getSession">>),
                         IF call.context # << >> /\ ~expired THEN call.context ELSE << >>,
                         << >>)
        /\ UNCHANGED <<admitted, mode, sessionDurationMs, now, idCount, users, clerkVars, issued,
                       revoked>>

\* validateSession, standalone branch, from that await on: the record read
\* before the await is tested against the time now
ValidateSessionFinish(caller) ==
    LET call == pending[caller]
        expired == call.context # << >> /\ IsExpired(call.context[1], now)
        kept == IF expired THEN SessionDelete(sessions, call.sessionId) ELSE sessions
    IN  /\ Ready
        /\ caller \in DOMAIN pending
        /\ call.op = "validateSession"
        /\ pending' = FnDelete(pending, caller)
        /\ sessions' = kept
        /\ evicted' = IF kept # sessions THEN evicted \cup {call.sessionId} ELSE evicted
        /\ res' = Result("validateSession", "", call.sessionId,
                         IF call.context = << >>
                         THEN Plain("invalid", "Session not found",
                                    <<"sessionStorage.getSession">>)
                         ELSE IF expired
                         THEN Plain("invalid", "Session expired",
                                    <<"sessionStorage.getSession",
                                      "sessionStorage.deleteSession">>)
                         ELSE Plain("valid", "", <<"sessionStorage.getSession">>),
                         IF call.context # << >> /\ ~expired THEN call.context ELSE << >>,
                         << >>)
        /\ UNCHANGED <<admitted, mode, sessionDurationMs, now, idCount, users, clerkVars, issued,
                       revoked>>

\* resolveIdentity as it would be if it kept the identities it has resolved and
\* answered from them for as long as the session stays valid
ResolveIdentityCached(sessionToken, dirFails) ==
    LET r == SvcResolveIdentity(mode, sessions, users, ClerkState, sessionToken, now,
                                dirFails)
        kept == {a \in admitted : /\ a[1] = sessionToken
                                  /\ r.v.kind = "valid"
                                  /\ a[2].tenantId = r.v.context[1].tenantId
                                  /\ a[2].userId = r.v.context[1].userId}
        hit == CHOOSE a \in kept : TRUE
    IN  /\ res' = IF kept # {}
                  THEN [Result("resolveIdentity", "", sessionToken,
                               Outcome("ok", "", <<hit[2]>>, "yes",
                                       r.v.calls \o <<"listOrganizationMembers">>),
                               r.v.context,
                               <<[userId |-> hit[2].userId,
                                  tenantId |-> hit[2].tenantId,
                                  roles |-> r.v.context[1].roles,
                                  profile |-> hit[2]]>>)
                           EXCEPT !.dirFails = mode = Delegated /\ dirFails]
                  ELSE [Result("resolveIdentity", "", sessionToken, r.o, r.context, r.value)
                           EXCEPT !.dirFails = mode = Delegated /\ dirFails]
        /\ AfterValidation(sessionToken, r.v)
        /\ admitted' = IF kept = {} /\ r.o.kind = "ok" /\ r.o.member = "yes"
                       THEN admitted \cup {<<sessionToken, r.value[1].profile>>}
                       ELSE admitted

ResolveIdentity(sessionToken, dirFails) ==
    LET r == SvcResolveIdentity(mode, sessions, users, ClerkState, sessionToken, now,
                                dirFails)
    IN  /\ res' = [Result("resolveIdentity", "", sessionToken, r.o, r.context, r.value)
                      EXCEPT !.dirFails = mode = Delegated /\ dirFails]
        /\ AfterValidation(sessionToken, r.v)
        /\ admitted' = IF r.o.kind = "ok" /\ r.o.member = "yes"
                       THEN admitted \cup {<<sessionToken, r.value[1].profile>>}
                       ELSE admitted

\* assertTenantContext as it would be if it required the profile, as
\* resolveIdentity does
AssertTenantContextWithProfile(sessionToken) ==
    LET r == SvcResolveIdentity(mode, sessions, users, ClerkState, sessionToken, now, FALSE)
    IN  /\ res' =
              IF r.v.kind = "error"
              THEN Result("assertTenantContext", "", sessionToken,
                          Plain("error", r.v.reason, r.v.calls), << >>, << >>)
              ELSE IF r.o.kind # "ok"
              THEN Result("assertTenantContext", "", sessionToken,
                          Plain("error",
                                "Unauthorized: " \o (IF r.v.kind = "valid" THEN r.o.reason
                                                     ELSE r.v.reason),
                                r.o.calls),
                          << >>, << >>)
              ELSE Result("assertTenantContext", "", sessionToken,
                          Plain("ok", "", r.o.calls), r.context,
                          <<[tenantId |-> r.context[1].tenantId,
                             userId |-> r.context[1].userId,
                             roles |-> r.context[1].roles,
                             sessionId |-> r.context[1].sessionId]>>)
        /\ AfterValidation(sessionToken, r.v)
        /\ UNCHANGED admitted

AssertTenantContext(sessionToken) ==
    LET v == SvcValidateSession(mode, sessions, ClerkState, sessionToken, now) IN
    /\ res' =
          IF v.kind = "error"
          THEN Result("assertTenantContext", "", sessionToken,
                      Plain("error", v.reason, v.calls), << >>, << >>)
          ELSE IF v.kind # "valid"
          THEN Result("assertTenantContext", "", sessionToken,
                      Plain("error", "Unauthorized: " \o v.reason, v.calls),
                      << >>, << >>)
          ELSE Result("assertTenantContext", "", sessionToken,
                      Plain("ok", "", v.calls), v.context,
                      <<[tenantId |-> v.context[1].tenantId,
                         userId |-> v.context[1].userId,
                         roles |-> v.context[1].roles,
                         sessionId |-> v.context[1].sessionId]>>)
    /\ AfterValidation(sessionToken, v)
    /\ UNCHANGED admitted

\* logout as it would be if it left the record in the store
LogoutKeepsRecord(sessionId) ==
    /\ Ready
    /\ revoked' = revoked \cup ({sessionId} \cap DOMAIN sessions)
    /\ res' = Result("logout", "", sessionId,
                     IF ~ValidId(sessionId) THEN Rejected
                     ELSE Plain("ok", "", <<"sessionStorage.deleteSession">>),
                     << >>, << >>)
    /\ UNCHANGED <<admitted, mode, pending, sessionDurationMs, now, idCount, users, sessions,
                   clerkVars, issued, evicted>>

\* logout as it would be if it revoked the token at the IdP as well
LogoutRevokingToken(sessionId) ==
    /\ Ready
    /\ sessions' = IF ValidId(sessionId) THEN SessionDelete(sessions, sessionId)
                   ELSE sessions
    /\ cSessions' = IF ValidId(sessionId) /\ mode = Delegated
                    THEN FnDelete(cSessions, sessionId) ELSE cSessions
    /\ revoked' = revoked \cup ({sessionId} \cap DOMAIN sessions)
    /\ res' = Result("logout", "", sessionId,
                     IF ~ValidId(sessionId) THEN Rejected
                     ELSE Plain("ok", "", <<"sessionStorage.deleteSession">>),
                     << >>, << >>)
    /\ UNCHANGED <<admitted, mode, pending, sessionDurationMs, now, idCount, users, cUsers,
                   emailIndex, phoneIndex, orgMembers, issued, evicted>>

Logout(sessionId) ==
    /\ Ready
    /\ sessions' = IF ValidId(sessionId) THEN SessionDelete(sessions, sessionId)
                   ELSE sessions
    /\ revoked' = revoked \cup ({sessionId} \cap DOMAIN sessions)
    /\ res' = Result("logout", "", sessionId,
                     IF ~ValidId(sessionId) THEN Rejected
                     ELSE Plain("ok", "", <<"sessionStorage.deleteSession">>),
                     << >>, << >>)
    /\ UNCHANGED <<admitted, mode, pending, sessionDurationMs, now, idCount, users, clerkVars, issued, evicted>>

LogoutAll(tenantId, userId) ==
    /\ Ready
    /\ IF ~(ValidId(tenantId) /\ ValidId(userId))
       THEN /\ res' = Result("logoutAll", tenantId, userId, Rejected, << >>, << >>)
            /\ UNCHANGED <<sessions, revoked>>
       ELSE /\ sessions' = SessionDeleteUserSessions(sessions, tenantId, userId)
            /\ revoked' = revoked \cup UserSessionIds(sessions, tenantId, userId)
            /\ res' = Result("logoutAll", tenantId, userId,
                             Plain("ok", "", <<"sessionStorage.deleteUserSessions">>),
                             << >>, << >>)
    /\ UNCHANGED <<admitted, mode, pending, sessionDurationMs, now, idCount, users, clerkVars, issued, evicted>>

(***************************************************************************)
(* Specification                                                           *)
(***************************************************************************)
Patches == {[setEmail |-> FALSE, email |-> NoEmail, setName |-> FALSE, name |-> NoName]}
               \cup {[setEmail |-> TRUE, email |-> e, setName |-> FALSE, name |-> NoName] :
                        e \in Emails \cup {NoEmail}}

\* listUsers: limit and offset (0: not given)
Limits == {0, 1}
Offsets == {0, 1}

Next ==
    \/ Return
    \/ Tick
    \/ \E token \in ClerkTokens, claims \in ClaimsCatalog : AddSession(token, claims)
    \/ \E token \in ClerkTokens : RemoveSession(token)
    \/ \E user \in ClerkCatalog : AddUser(user)
    \/ \E userId \in ClerkIds : RemoveUser(userId)
    \/ \E orgId \in Tenants, userId \in ClerkIds : AddOrgMember(orgId, userId)
    \/ \E t \in Tenants, p \in RawPhones, e \in Emails \cup {NoEmail} : CreateUser(t, p, e)
    \/ \E t \in Tenants, u \in LookupIds \cup ClerkLookupIds, f \in BOOLEAN : GetUser(t, u, f)
    \/ \E t \in Tenants, p \in RawPhones, f \in BOOLEAN : GetUserByPhone(t, p, f)
    \/ \E t \in Tenants, e \in Emails, f \in BOOLEAN : GetUserByEmail(t, e, f)
    \/ \E t \in Tenants, l \in Limits, o \in Offsets, f \in BOOLEAN : ListUsers(t, l, o, f)
    \/ \E t \in Tenants, u \in LookupIds, patch \in Patches : UpdateUser(t, u, patch)
    \/ \E t \in Tenants, u \in LookupIds : DeleteUser(t, u)
    \/ \E t \in Tenants, p \in RawPhones, r \in RoleLists : Authenticate(t, p, r)
    \/ \E k \in Tokens : ValidateSession(k)
    \/ \E k \in Tokens, f \in BOOLEAN : ResolveIdentity(k, f)
    \/ \E k \in Tokens : AssertTenantContext(k)
    \/ \E k \in Tokens : Logout(k)
    \/ \E t \in Tenants, u \in LookupIds : LogoutAll(t, u)

Spec == Init /\ [][Next]_vars

(***************************************************************************)
(* Standalone mode, the profile operations: the clock stands still and no  *)
(* session is issued                                                       *)
(***************************************************************************)
InitUsers ==
    /\ Init
    /\ mode = Standalone
    /\ sessionDurationMs = DefaultSessionDurationMs

NextUsers ==
    \/ Return
    \/ \E t \in Tenants, p \in RawPhones, e \in Emails \cup {NoEmail} : CreateUser(t, p, e)
    \/ \E t \in Tenants, u \in LookupIds : GetUser(t, u, FALSE)
    \/ \E t \in Tenants, p \in RawPhones : GetUserByPhone(t, p, FALSE)
    \/ \E t \in Tenants, e \in Emails : GetUserByEmail(t, e, FALSE)
    \/ \E t \in Tenants, l \in Limits, o \in Offsets : ListUsers(t, l, o, FALSE)
    \/ \E t \in Tenants, u \in LookupIds, patch \in Patches : UpdateUser(t, u, patch)
    \/ \E t \in Tenants, u \in LookupIds : DeleteUser(t, u)

SpecUsers == InitUsers /\ [][NextUsers]_vars

(***************************************************************************)
(* Delegated mode, the profile lookups over the IdP's users and member     *)
(* lists, which are all that these lookups read                            *)
(***************************************************************************)
InitDirectory ==
    /\ Init
    /\ mode = Delegated
    /\ sessionDurationMs = DefaultSessionDurationMs

NextDirectory ==
    \/ Return
    \/ \E user \in ClerkCatalog : AddUser(user)
    \/ \E userId \in ClerkIds : RemoveUser(userId)
    \/ \E orgId \in Tenants, userId \in ClerkIds : AddOrgMember(orgId, userId)
    \/ \E t \in Tenants, u \in ClerkLookupIds, f \in BOOLEAN : GetUser(t, u, f)
    \/ \E t \in Tenants, p \in RawPhones, f \in BOOLEAN : GetUserByPhone(t, p, f)
    \/ \E t \in Tenants, e \in Emails, f \in BOOLEAN : GetUserByEmail(t, e, f)
    \/ \E t \in Tenants, l \in Limits, o \in Offsets, f \in BOOLEAN : ListUsers(t, l, o, f)

SpecDirectory == InitDirectory /\ [][NextDirectory]_vars

(***************************************************************************)
(* Both modes, the session operations, with the user operations that       *)
(* sessions need                                                           *)
(***************************************************************************)
SessionPhones == {"08012345678", "0801"}
SessionUserIds == {"1f", "2e"}

InitSessions ==
    /\ Init
    /\ sessionDurationMs # DefaultSessionDurationMs

NextSessions ==
    \/ Return
    \/ Tick
    \/ \E token \in ClerkTokens, claims \in ClaimsCatalog : AddSession(token, claims)
    \/ \E token \in ClerkTokens : RemoveSession(token)
    \/ \E t \in Tenants, p \in SessionPhones : CreateUser(t, p, NoEmail)
    \/ \E t \in Tenants, u \in SessionUserIds : DeleteUser(t, u)
    \/ \E t \in Tenants, p \in SessionPhones, r \in RoleLists : Authenticate(t, p, r)
    \/ \E k \in Tokens : ValidateSession(k)
    \/ \E k \in Tokens : AssertTenantContext(k)
    \/ \E k \in Tokens : Logout(k)
    \/ \E t \in Tenants, u \in SessionUserIds : LogoutAll(t, u)

SpecSessions == InitSessions /\ [][NextSessions]_vars

(***************************************************************************)
(* Both modes, the resolution of a token to an identity: the session, the  *)
(* user and (delegated) the membership it depends on.  The local stores,   *)
(* which a delegated resolution never reads, change in standalone mode only *)
(***************************************************************************)
ResolvePhones == {"08012345678"}

InitResolve ==
    /\ Init
    /\ sessionDurationMs # DefaultSessionDurationMs

NextResolve ==
    \/ Return
    \/ Tick
    \/ \E token \in ClerkTokens, claims \in ClaimsCatalog : AddSession(token, claims)
    \/ \E user \in ClerkCatalog : AddUser(user)
    \/ \E userId \in ClerkIds : RemoveUser(userId)
    \/ \E orgId \in Tenants, userId \in ClerkIds : AddOrgMember(orgId, userId)
    \/ mode = Standalone /\ \E t \in Tenants, p \in ResolvePhones : CreateUser(t, p, NoEmail)
    \/ mode = Standalone /\ \E t \in Tenants, u \in LookupIds : DeleteUser(t, u)
    \/ mode = Standalone /\ \E t \in Tenants, p \in ResolvePhones, r \in RoleLists :
                                Authenticate(t, p, r)
    \/ mode = Standalone /\ \E k \in Tokens : Logout(k)
    \/ \E k \in Tokens : ValidateSession(k)
    \/ \E k \in Tokens, f \in BOOLEAN : ResolveIdentity(k, f)
    \/ \E k \in Tokens : AssertTenantContext(k)

SpecResolve == InitResolve /\ [][NextResolve]_vars

(***************************************************************************)
(* Delegated mode, the guarded lookups and resolveIdentity while the       *)
(* directory changes between calls                                         *)
(***************************************************************************)
InitFresh ==
    /\ Init
    /\ mode = Delegated
    /\ sessionDurationMs = DefaultSessionDurationMs

NextFresh ==
    \/ Return
    \/ \E token \in ClerkTokens, claims \in ClaimsCatalog : AddSession(token, claims)
    \/ \E user \in ClerkCatalog : AddUser(user)
    \/ \E userId \in ClerkIds : RemoveUser(userId)
    \/ \E orgId \in Tenants, userId \in ClerkIds : AddOrgMember(orgId, userId)
    \/ \E t \in Tenants, u \in ClerkLookupIds, f \in BOOLEAN : GetUser(t, u, f)
    \/ \E t \in Tenants, p \in SessionPhones, f \in BOOLEAN : GetUserByPhone(t, p, f)
    \/ \E t \in Tenants, e \in Emails, f \in BOOLEAN : GetUserByEmail(t, e, f)
    \/ \E k \in ClerkTokens, f \in BOOLEAN : ResolveIdentity(k, f)

SpecFresh == InitFresh /\ [][NextFresh]_vars

(***************************************************************************)
(* Delegated mode, tokens whose claims have or lack an organization, a     *)
(* primary role and metadata roles ("" and << >> stand for a missing       *)
(* field)                                                                  *)
(***************************************************************************)
ClaimOrgs == {"orgA", ""}
ClaimRoles == {"admin", ""}
ClaimMetaRoles == {<< >>, <<"billing">>, <<"admin">>, <<"billing", "admin">>}
ClaimsVariety ==
    { [sub |-> "c1", sid |-> "s1", org_id |-> o, org_role |-> r,
       metaRoles |-> m, iat |-> 0, exp |-> 1] :
        o \in ClaimOrgs, r \in ClaimRoles, m \in ClaimMetaRoles }
ClaimTenants == {"orgA", DefaultTenant}

InitClaims ==
    /\ Init
    /\ mode = Delegated
    /\ sessionDurationMs = DefaultSessionDurationMs

NextClaims ==
    \/ Return
    \/ \E token \in ClerkTokens, claims \in ClaimsVariety : AddSession(token, claims)
    \/ \E user \in ClerkCatalog : AddUser(user)
    \/ \E userId \in ClerkIds : RemoveUser(userId)
    \/ \E orgId \in ClaimTenants, userId \in ClerkIds : AddOrgMember(orgId, userId)
    \/ \E k \in ClerkTokens : ValidateSession(k)
    \/ \E k \in ClerkTokens, f \in BOOLEAN : ResolveIdentity(k, f)

SpecClaims == InitClaims /\ [][NextClaims]_vars

(***************************************************************************)
(* Delegated mode, tokens whose claims have or lack a well-formed iat and  *)
(* exp, validated as time passes                                           *)
(***************************************************************************)
ClaimTimes == {0, 1, NotANumber}
TimedTokens == {"tok1", "tok2"}
TimedClaims ==
    { [sub |-> "c1", sid |-> "s1", org_id |-> "a", org_role |-> "admin",
       metaRoles |-> << >>, iat |-> i, exp |-> e] :
        i \in ClaimTimes, e \in ClaimTimes }

InitTimed ==
    /\ Init
    /\ mode = Delegated
    /\ sessionDurationMs = DefaultSessionDurationMs

NextTimed ==
    \/ Return
    \/ Tick
    \/ \E token \in TimedTokens, claims \in TimedClaims : AddSession(token, claims)
    \/ \E k \in TimedTokens : ValidateSession(k)

SpecTimed == InitTimed /\ [][NextTimed]_vars

(***************************************************************************)
(* Standalone mode, createUser calls that interleave at their awaits, with *)
(* deleteUser                                                              *)
(***************************************************************************)
Callers == {"p", "q"}
CreatePhones == {"08012345678", "+234 801 234 5678", "0801"}

InitCreate ==
    /\ Init
    /\ mode = Standalone
    /\ sessionDurationMs = DefaultSessionDurationMs

NextCreate ==
    \/ Return
    \/ \E caller \in Callers, t \in Tenants, p \in CreatePhones :
          CreateUserBegin(caller, t, p, NoEmail)
    \/ \E caller \in Callers : CreateUserFinish(caller)
    \/ \E t \in Tenants, u \in LookupIds : DeleteUser(t, u)

SpecCreate == InitCreate /\ [][NextCreate]_vars

(***************************************************************************)
(* Standalone mode, users created with one spelling of a phone number and  *)
(* looked up or authenticated with any spelling                            *)
(***************************************************************************)
CreatedPhones == {"08012345678", "8098765432", "0801"}

InitPhones ==
    /\ Init
    /\ mode = Standalone
    /\ sessionDurationMs = DefaultSessionDurationMs

NextPhones ==
    \/ Return
    \/ \E t \in Tenants, p \in CreatedPhones, e \in Emails \cup {NoEmail} : CreateUser(t, p, e)
    \/ \E t \in Tenants, p \in RawPhones : GetUserByPhone(t, p, FALSE)
    \/ \E t \in Tenants, p \in RawPhones, r \in RoleLists : Authenticate(t, p, r)

SpecPhones == InitPhones /\ [][NextPhones]_vars

(***************************************************************************)
(* Both modes, listUsers with and without a limit and an offset, over the  *)
(* users of one tenant                                                     *)
(***************************************************************************)
PageTenants == {"a"}
PagePhones == {"08012345678", "8098765432"}
PageOptions == {NotGiven, 0, 1, 2}

InitPages ==
    /\ Init
    /\ sessionDurationMs = DefaultSessionDurationMs

NextPages ==
    \/ Return
    \/ mode = Standalone /\ \E t \in PageTenants, p \in PagePhones : CreateUser(t, p, NoEmail)
    \/ mode = Standalone /\ \E t \in PageTenants, u \in SessionUserIds : DeleteUser(t, u)
    \/ \E user \in ClerkCatalog : AddUser(user)
    \/ \E orgId \in PageTenants, userId \in ClerkIds : AddOrgMember(orgId, userId)
    \/ \E t \in PageTenants, l \in PageOptions, o \in PageOptions : ListUsers(t, l, o, FALSE)

SpecPages == InitPages /\ [][NextPages]_vars

(***************************************************************************)
(* Standalone mode, getUser with user ids that are spelled like the rest   *)
(* of a storage key                                                        *)
(***************************************************************************)
KeyEmails == {NoEmail, "x@y.co"}
KeyLookupIds == {"1f", "2e", "b:1f", "phone:+2348012345678", "email:x@y.co"}

InitKeys ==
    /\ Init
    /\ mode = Standalone
    /\ sessionDurationMs = DefaultSessionDurationMs

NextKeys ==
    \/ Return
    \/ \E t \in Tenants, p \in ResolvePhones, e \in KeyEmails : CreateUser(t, p, e)
    \/ \E t \in Tenants, u \in SessionUserIds : DeleteUser(t, u)
    \/ \E t \in Tenants, u \in KeyLookupIds : GetUser(t, u, FALSE)

SpecKeys == InitKeys /\ [][NextKeys]_vars

(***************************************************************************)
(* Standalone mode: users created with a roles list, sessions issued with  *)
(* another, and the roles every later result carries                       *)
(***************************************************************************)
\* roles lists supplied to createUser: a valid one and one with an empty role
GivenRoles == {<<"owner">>, <<"">>}

RoleTokens == {"2e", "3d", "tok1"}

InitRoles ==
    /\ Init
    /\ mode = Standalone
    /\ sessionDurationMs # DefaultSessionDurationMs

NextRoles ==
    \/ Return
    \/ Tick
    \/ \E t \in Tenants, p \in ResolvePhones, g \in GivenRoles :
          CreateUserWithRoles(t, p, NoEmail, g)
    \/ \E t \in Tenants, p \in ResolvePhones, r \in RoleLists : Authenticate(t, p, r)
    \/ \E k \in RoleTokens : ValidateSession(k)
    \/ \E k \in RoleTokens : ResolveIdentity(k, FALSE)
    \/ \E k \in RoleTokens : AssertTenantContext(k)
    \/ \E k \in RoleTokens : Logout(k)

SpecRoles == InitRoles /\ [][NextRoles]_vars

(***************************************************************************)
(* The phone utilities on their own, over inputs made of a prefix, a body  *)
(* and a way of writing them                                               *)
(***************************************************************************)
PhonePrefixes == {"+234", "234", "0", "", "+", "+235"}
PhoneBodies == {"8012345678", "801234567", "80123456789", "801234567x",
                "2348012345", "0801234567"}
PhoneStyles == {"plain", "spaced", "dashed"}

Written(prefix, body, style) ==
    IF style = "plain" THEN prefix \o body
    ELSE IF style = "spaced"
    THEN prefix \o " " \o SubSeq(body, 1, 3) \o " " \o SubSeq(body, 4, Len(body))
    ELSE "(" \o prefix \o ")" \o SubSeq(body, 1, 3) \o "-" \o SubSeq(body, 4, 6)
             \o "." \o SubSeq(body, 7, Len(body))

PhoneInputs ==
    {Written(p, b, w) : p \in PhonePrefixes, b \in PhoneBodies, w \in PhoneStyles}

InitPhoneUtils ==
    /\ Init
    /\ mode = Standalone
    /\ sessionDurationMs = DefaultSessionDurationMs

NextPhoneUtils ==
    \/ Return
    \/ \E x \in PhoneInputs : NormalizePhone(x)
    \/ \E x \in PhoneInputs : IsValidPhone(x)
    \/ \E x \in PhoneInputs : FormatPhone(x)
    \/ \E x \in PhoneInputs : PhoneRoundTrip(x)

SpecPhoneUtils == InitPhoneUtils /\ [][NextPhoneUtils]_vars

(***************************************************************************)
(* Both modes, every operation called with well-formed and with malformed  *)
(* identifiers and phones, over stores that hold a user and a session      *)
(***************************************************************************)
\* s repeated 2^n times
RECURSIVE Doubled(_, _)
Doubled(s, n) == IF n = 0 THEN s ELSE Doubled(s \o s, n - 1)

\* the longest id the schemas accept, and the shortest they reject for length
MaxLengthId == SubSeq(Doubled("x", 9), 1, MaxIdLength)
LongId == SubSeq(Doubled("x", 9), 1, MaxIdLength + 1)

InputTenants == {"a", "", LongId}
InputUserIds == {"1f", "", LongId}
InputTokens == {"2e", "tok1", "", LongId, MaxLengthId}
InputPhones == {"08012345678", "0801"}
InputPatches == {[setEmail |-> TRUE, email |-> "x@y.co", setName |-> FALSE, name |-> NoName]}

InitInputs ==
    /\ Init
    /\ sessionDurationMs # DefaultSessionDurationMs

NextInputs ==
    \/ Return
    \/ \E token \in ClerkTokens, claims \in ClaimsCatalog : AddSession(token, claims)
    \/ \E t \in InputTenants, p \in InputPhones : CreateUser(t, p, NoEmail)
    \/ \E t \in InputTenants, u \in InputUserIds : GetUser(t, u, FALSE)
    \/ \E t \in InputTenants, p \in InputPhones : GetUserByPhone(t, p, FALSE)
    \/ \E t \in InputTenants : GetUserByEmail(t, "x@y.co", FALSE)
    \/ \E t \in InputTenants : ListUsers(t, 0, 0, FALSE)
    \/ \E t \in InputTenants, u \in InputUserIds, patch \in InputPatches :
          UpdateUser(t, u, patch)
    \/ \E t \in InputTenants, u \in InputUserIds : DeleteUser(t, u)
    \/ \E t \in InputTenants, p \in InputPhones : Authenticate(t, p, << >>)
    \/ \E k \in InputTokens : ValidateSession(k)
    \/ \E k \in InputTokens : ResolveIdentity(k, FALSE)
    \/ \E k \in InputTokens : AssertTenantContext(k)
    \/ \E k \in InputTokens : Logout(k)
    \/ \E t \in InputTenants, u \in InputUserIds : LogoutAll(t, u)

SpecInputs == InitInputs /\ [][NextInputs]_vars

(***************************************************************************)
(* Standalone mode, users whose email and displayName are changed after    *)
(* creation, looked up and deleted                                         *)
(***************************************************************************)
UpdateEmails == {"x@y.co", "z@y.co"}
UpdateNames == {"Ada"}

UpdatePatches ==
    {[setEmail |-> se, email |-> IF se THEN e ELSE NoEmail,
      setName |-> sn, name |-> IF sn THEN n ELSE NoName] :
        se \in BOOLEAN, e \in UpdateEmails, sn \in BOOLEAN, n \in UpdateNames}

InitUpdate ==
    /\ Init
    /\ mode = Standalone
    /\ sessionDurationMs = DefaultSessionDurationMs

NextUpdate ==
    \/ Return
    \/ Tick
    \/ \E t \in Tenants, p \in ResolvePhones, e \in UpdateEmails : CreateUser(t, p, e)
    \/ \E t \in Tenants, u \in LookupIds, patch \in UpdatePatches : UpdateUser(t, u, patch)
    \/ \E t \in Tenants, u \in SessionUserIds : DeleteUser(t, u)
    \/ \E t \in Tenants, u \in SessionUserIds : GetUser(t, u, FALSE)
    \/ \E t \in Tenants, p \in ResolvePhones : GetUserByPhone(t, p, FALSE)
    \/ \E t \in Tenants, e \in UpdateEmails : GetUserByEmail(t, e, FALSE)

SpecUpdate == InitUpdate /\ [][NextUpdate]_vars

(***************************************************************************)
(* Standalone mode, calls that overlap: authenticate and deleteUser yield   *)
(* at their first await, and other calls run before they resume            *)
(***************************************************************************)
AuthCallers == {"r"}
DeleteCallers == {"d"}

InitOverlap ==
    /\ Init
    /\ mode = Standalone
    /\ sessionDurationMs # DefaultSessionDurationMs

NextOverlap ==
    \/ Return
    \/ Tick
    \/ \E t \in Tenants, p \in ResolvePhones : CreateUser(t, p, NoEmail)
    \/ \E caller \in AuthCallers, t \in Tenants, p \in ResolvePhones, r \in RoleLists :
          AuthenticateBegin(caller, t, p, r)
    \/ \E caller \in AuthCallers : AuthenticateFinish(caller)
    \/ \E caller \in DeleteCallers, t \in Tenants, u \in SessionUserIds :
          DeleteUserBegin(caller, t, u)
    \/ \E caller \in DeleteCallers : DeleteUserFinish(caller)
    \/ \E k \in SessionUserIds : ValidateSession(k)

SpecOverlap == InitOverlap /\ [][NextOverlap]_vars

(***************************************************************************)
(* Standalone mode, a validateSession that yields at its await while       *)
(* logout, logoutAll and other validations run                             *)
(***************************************************************************)
ValidateCallers == {"v", "w"}
EvictionTenants == {"a"}

InitEviction ==
    /\ Init
    /\ mode = Standalone
    /\ sessionDurationMs # DefaultSessionDurationMs

NextEviction ==
    \/ Return
    \/ Tick
    \/ \E t \in EvictionTenants, p \in ResolvePhones : CreateUser(t, p, NoEmail)
    \/ \E t \in EvictionTenants, p \in ResolvePhones, r \in RoleLists : Authenticate(t, p, r)
    \/ \E caller \in ValidateCallers, k \in SessionUserIds :
          ValidateSessionBegin(caller, k)
    \/ \E caller \in ValidateCallers : ValidateSessionFinish(caller)
    \/ \E k \in SessionUserIds : Logout(k)
    \/ \E t \in EvictionTenants, u \in SessionUserIds : LogoutAll(t, u)

SpecEviction == InitEviction /\ [][NextEviction]_vars

(***************************************************************************)
(* Standalone mode, a service constructed over a session storage that      *)
(* already holds records (config.sessionStorage), among them sessions of   *)
(* one userId in two tenants                                               *)
(***************************************************************************)
PriorUserIds == {"u1", "u2"}
PriorSessionIds == {"s1", "s2", "s3", "s4"}

PriorContext(sessionId, tenantId, userId, roles) ==
    [sessionId |-> sessionId, userId |-> userId, tenantId |-> tenantId,
     roles |-> roles, issuedAt |-> 0, expiresAt |-> MsPerSecond]

PriorContexts ==
    [k \in PriorSessionIds |->
        IF k = "s1" THEN PriorContext(k, "a", "u1", << >>)
        ELSE IF k = "s2" THEN PriorContext(k, "a", "u1", <<"admin">>)
        ELSE IF k = "s3" THEN PriorContext(k, "a:b", "u1", << >>)
        ELSE PriorContext(k, "a", "u2", << >>)]

InitLogoutAll ==
    /\ mode = Standalone
    /\ sessionDurationMs = MsPerSecond
    /\ now = 0
    /\ idCount = 0
    /\ users = << >>
    /\ \E held \in SUBSET PriorSessionIds : sessions = [k \in held |-> PriorContexts[k]]
    /\ cSessions = EmptyFn
    /\ cUsers = EmptyFn
    /\ emailIndex = EmptyFn
    /\ phoneIndex = EmptyFn
    /\ orgMembers = EmptyFn
    /\ res = Idle
    /\ issued = EmptyFn
    /\ revoked = {}
    /\ evicted = {}
    /\ admitted = {}
    /\ pending = EmptyFn

NextLogoutAll ==
    \/ Return
    \/ Tick
    \/ \E k \in PriorSessionIds : ValidateSession(k)
    \/ \E k \in PriorSessionIds : Logout(k)
    \/ \E t \in Tenants, u \in PriorUserIds : LogoutAll(t, u)

SpecLogoutAll == InitLogoutAll /\ [][NextLogoutAll]_vars

(***************************************************************************)
(* Properties                                                              *)
(***************************************************************************)
Lookups == {"getUser", "getUserByPhone", "getUserByEmail"}

\* the profiles the user storage holds, under whichever key
StoredProfiles == {users[i].val : i \in 1..Len(users)}

\* C1: every profile returned by getUser(T, .), getUserByPhone(T, .),
\* getUserByEmail(T, .) or listUsers(T, .) has tenantId T
C1_ReturnedProfilesAreOfTenant ==
    res.op \in Lookups \cup {"listUsers"} =>
        \A i \in 1..Len(res.profiles) : res.profiles[i].tenantId = res.tenantId

\* the last lookup asked tenant res.tenantId for the id, phone or email of p
LookupIsFor(p) ==
    \/ res.op = "getUser" /\ res.key = p.userId
    \/ res.op = "getUserByPhone" /\ normalizeNigerianPhone(res.key).ok
                                 /\ normalizeNigerianPhone(res.key).value = p.phone
    \/ res.op = "getUserByEmail" /\ p.email # NoEmail
                                 /\ ToLowerCase(res.key) = ToLowerCase(p.email)

MemberIds(c, tenantId) ==
    IF tenantId \in DOMAIN c.orgMembers
    THEN {c.orgMembers[tenantId][i] : i \in 1..Len(c.orgMembers[tenantId])}
    ELSE {}
IsMemberNow(tenantId, userId) ==
    userId \in MemberIds(ClerkState, tenantId) /\ userId \in DOMAIN cUsers

\* C3: delegated getUser(T, U) returns a profile only if U is on T's member
\* list; the membership check is the first call and only a positive answer
\* leads to fetching the user; a non-member gets absent, not an error
C3_GetUserGatedByMembership ==
    (mode = Delegated /\ res.op = "getUser") =>
        /\ res.calls # << >> /\ res.calls[1] = "listOrganizationMembers"
        /\ (Len(res.calls) > 1 => res.member = "yes")
        /\ res.profiles # << >> =>
              /\ res.member = "yes"
              /\ IsMemberNow(res.tenantId, res.key)
              /\ res.profiles[1].tenantId = res.tenantId
              /\ res.profiles[1].userId = res.key
        /\ (~res.dirFails /\ IsMemberNow(res.tenantId, res.key)) => res.kind = "ok"
        /\ (~res.dirFails /\ ~IsMemberNow(res.tenantId, res.key)) => res.kind = "absent"

\* getUser came back absent for a user who is a member of another tenant only
C3_Witness ==
    /\ mode = Delegated
    /\ res.op = "getUser"
    /\ res.kind = "absent"
    /\ ~res.dirFails
    /\ \E t \in Tenants : t # res.tenantId /\ IsMemberNow(t, res.key)

\* the IdP resolves the key of the last lookup by phone or email to a user
ResolvedUser ==
    IF res.op = "getUserByEmail"
    THEN IF ToLowerCase(res.key) \in DOMAIN emailIndex
         THEN {emailIndex[ToLowerCase(res.key)]} \cap DOMAIN cUsers ELSE {}
    ELSE IF normalizeNigerianPhone(res.key).ok
            /\ normalizeNigerianPhone(res.key).value \in DOMAIN phoneIndex
         THEN {phoneIndex[normalizeNigerianPhone(res.key).value]} \cap DOMAIN cUsers
         ELSE {}

\* C4: delegated getUserByPhone / getUserByEmail resolve the key in the IdP
\* first and then always make the membership check for the resolved user; a
\* profile is returned only if that check was positive in the same call
C4_ResolvedKeyAlwaysChecked ==
    (mode = Delegated /\ res.op \in {"getUserByPhone", "getUserByEmail"}) =>
        /\ res.member # "none" =>
              /\ Len(res.calls) = 2
              /\ res.calls[1] = "clerk." \o res.op
              /\ res.calls[2] = "listOrganizationMembers"
        /\ ResolvedUser # {} => res.member # "none"
        /\ res.profiles # << >> =>
              /\ res.member = "yes"
              /\ res.profiles[1].userId \in ResolvedUser
              /\ IsMemberNow(res.tenantId, res.profiles[1].userId)
              /\ res.profiles[1].tenantId = res.tenantId

\* a lookup by email resolved a user of another tenant and released nothing
C4_Witness ==
    /\ mode = Delegated
    /\ res.op = "getUserByEmail"
    /\ ResolvedUser # {}
    /\ res.member = "no"
    /\ res.kind = "absent"

\* C5: when listOrganizationMembers fails, or returns an empty list for T,
\* the Membership Guard answers "not a member" and getUser(T, .) returns absent
C5_FailClosedMembership ==
    (mode = Delegated /\ res.op = "getUser"
        /\ (res.dirFails \/ ClerkListOrganizationMembers(ClerkState, res.tenantId) = << >>))
    => (res.member = "no" /\ res.kind = "absent")

\* the IdP as it would be if user x did not exist
ClerkWithout(c, x) ==
    [c EXCEPT !.users = FnDelete(c.users, x),
              !.emailIndex = [k \in {e \in DOMAIN c.emailIndex : c.emailIndex[e] # x}
                                |-> c.emailIndex[k]],
              !.phoneIndex = [k \in {e \in DOMAIN c.phoneIndex : c.phoneIndex[e] # x}
                                |-> c.phoneIndex[k]]]

\* the last lookup, made again against the IdP state c
Replay(c) ==
    IF res.op = "getUser"
    THEN SvcGetUser(mode, users, c, res.tenantId, res.key, res.dirFails)
    ELSE IF res.op = "getUserByPhone"
    THEN SvcGetUserByPhone(mode, users, c, res.tenantId, res.key, res.dirFails)
    ELSE SvcGetUserByEmail(mode, users, c, res.tenantId, res.key, res.dirFails)

\* C6: for a fixed tenant T, whether a non-member x of T exists makes no
\* difference to getUser(T, .), getUserByPhone(T, .), getUserByEmail(T, .):
\* the lookup gives the same outcome with and without x, and a lookup that
\* resolves x is absent, without an error
C6_NonMemberIndistinguishable ==
    (mode = Delegated /\ res.op \in Lookups) =>
        \A x \in (DOMAIN cUsers) \ MemberIds(ClerkState, res.tenantId) :
            /\ Replay(ClerkWithout(ClerkState, x)).kind = res.kind
            /\ Replay(ClerkWithout(ClerkState, x)).profiles = res.profiles
            /\ (res.op = "getUser" /\ res.key = x) => res.kind = "absent"
            /\ (res.op # "getUser" /\ x \in ResolvedUser) => res.kind = "absent"

\* C7: standalone, a session issued by authenticate (expiresAt = issue time
\* + sessionDurationMs) and never logged out or deleted validates as Valid
\* at every time before expiresAt and as Invalid at every time after it, and
\* is never Valid again once a check after expiresAt has evicted it
C7_ExpiryMonotone ==
    (mode = Standalone /\ res.op = "validateSession"
        /\ res.key \in DOMAIN issued /\ res.key \notin revoked) =>
        /\ issued[res.key].expiresAt = issued[res.key].issuedAt + sessionDurationMs
        /\ now < issued[res.key].expiresAt => res.kind = "valid"
        /\ now > issued[res.key].expiresAt => res.kind = "invalid"
        /\ res.key \in evicted => res.kind = "invalid"

\* a session that was never logged out was validated after its expiresAt
C7_Witness ==
    /\ mode = Standalone
    /\ res.op = "validateSession"
    /\ res.key \in DOMAIN issued /\ res.key \notin revoked
    /\ now > issued[res.key].expiresAt
    /\ res.kind = "invalid"

\* C8: in both modes, no validateSession or assertTenantContext made at a
\* time after the expiresAt of the context it returns is Valid
C8_NeverValidAfterExpiresAt ==
    (res.op \in {"validateSession", "assertTenantContext"} /\ res.context # << >>)
        => now <= res.context[1].expiresAt

\* C9: standalone, the validateSession that finds a stored record with
\* expiresAt before now deletes exactly that record and returns Invalid; a
\* validateSession of an id with no record returns Invalid and changes nothing
C9_LazyEvictionIdempotent ==
    [][\A k \in Tokens :
        (mode = Standalone /\ ValidateSession(k)) =>
            /\ (k \in DOMAIN sessions /\ sessions[k].expiresAt < now) =>
                  /\ res'.kind = "invalid"
                  /\ DOMAIN sessions' = (DOMAIN sessions) \ {k}
                  /\ \A j \in DOMAIN sessions' : sessions'[j] = sessions[j]
                  /\ users' = users
            /\ (k \notin DOMAIN sessions) =>
                  /\ res'.kind = "invalid"
                  /\ sessions' = sessions
                  /\ users' = users
                  /\ evicted' = evicted]_vars

\* an evicted session was validated a second time and was not found
C9_Witness ==
    /\ mode = Standalone
    /\ res.op = "validateSession"
    /\ res.key \in evicted
    /\ res.reason = "Session not found"

\* C10: validateSession never raises for an unknown or expired session; it
\* returns Valid with a context and no reason, or Invalid with a reason and
\* no context, each reason exactly in its case
C10_ValidationIsAResult ==
    [][\A k \in Tokens :
        ValidateSession(k) =>
            /\ res'.kind \in {"valid", "invalid"}
            /\ res'.kind = "valid" => (res'.context # << >> /\ res'.reason = "")
            /\ res'.kind = "invalid" => (res'.context = << >> /\ res'.reason # "")
            /\ res'.reason = "Session not found"
                  <=> (mode = Standalone /\ k \notin DOMAIN sessions)
            /\ res'.reason = "Session expired"
                  <=> (mode = Standalone /\ k \in DOMAIN sessions
                         /\ sessions[k].expiresAt < now)
            /\ res'.reason = "Invalid or expired session"
                  <=> (mode = Delegated
                         /\ ClerkVerifySession(ClerkState, k, now).claims = << >>)]_vars

\* in delegated mode the IdP returned no claims for the token presented, and
\* validation answered Invalid with the IdP's reason
C10_Witness ==
    /\ mode = Delegated
    /\ res.op = "validateSession"
    /\ res.key \in ClerkTokens
    /\ res.reason = "Invalid or expired session"
    /\ now > 0

\* C11: a successful resolveIdentity(token) proves that validateSession(token)
\* is Valid, that the profile of the context's tenant and user exists and, in
\* delegated mode, that the user is on the member list of the context's
\* tenant; the returned tenantId, userId and the profile's equal the
\* context's, and the roles are the context's roles
C11_ResolutionProves ==
    (res.op = "resolveIdentity" /\ res.kind = "ok") =>
        /\ res.context # << >> /\ res.value # << >>
        /\ SvcValidateSession(mode, sessions, ClerkState, res.key, now).kind = "valid"
        /\ SvcValidateSession(mode, sessions, ClerkState, res.key, now).context = res.context
        /\ res.value[1].tenantId = res.context[1].tenantId
        /\ res.value[1].userId = res.context[1].userId
        /\ res.value[1].roles = res.context[1].roles
        /\ res.value[1].profile.tenantId = res.context[1].tenantId
        /\ res.value[1].profile.userId = res.context[1].userId
        /\ mode = Standalone => res.value[1].profile \in StoredProfiles
        /\ mode = Delegated =>
              /\ res.member = "yes"
              /\ IsMemberNow(res.context[1].tenantId, res.context[1].userId)

\* a token of the IdP was resolved to a member of its tenant
C11_Witness ==
    /\ mode = Delegated
    /\ res.op = "resolveIdentity"
    /\ res.kind = "ok"
    /\ res.value # << >>
    /\ res.value[1].userId \in ClerkIds

\* the error kinds, which the source tells apart by the message of the Error
\* it throws: resolveIdentity's "Invalid session: ..." and "User not found"
\* (UnresolvableIdentity), assertTenantContext's "Unauthorized: ..."
IsUnresolvableIdentity(reason) ==
    StartsWith(reason, "Invalid session: ") \/ reason = "User not found"
IsUnauthorized(reason) == StartsWith(reason, "Unauthorized: ")

\* the profile lookup resolveIdentity makes for a validated context
LookupFor(context, dirFails) ==
    SvcGetUser(mode, users, ClerkState, context.tenantId, context.userId, dirFails)

\* C12: resolveIdentity(token) fails as UnresolvableIdentity, with no partial
\* result, whenever validateSession(token) is Invalid (the error carries the
\* validation's reason) or the tenant-scoped profile lookup comes back empty;
\* it never fails as Unauthorized
C12_UnresolvableIdentity ==
    [][\A k \in Tokens, f \in BOOLEAN :
        ResolveIdentity(k, f) =>
            LET v == SvcValidateSession(mode, sessions, ClerkState, k, now) IN
            /\ v.kind = "invalid" =>
                  /\ res'.kind = "error"
                  /\ res'.reason = "Invalid session: " \o v.reason
                  /\ IsUnresolvableIdentity(res'.reason)
                  /\ res'.value = << >> /\ res'.profiles = << >>
            /\ (v.kind = "valid" /\ LookupFor(v.context[1], f).kind = "absent") =>
                  /\ res'.kind = "error"
                  /\ IsUnresolvableIdentity(res'.reason)
                  /\ res'.value = << >> /\ res'.profiles = << >>
            /\ res'.kind = "error" => ~IsUnauthorized(res'.reason)
            /\ res'.kind # "error" => (res'.kind = "ok" /\ v.kind = "valid")]_vars

\* standalone: a live session was resolved after its user's profile had gone
C12_Witness ==
    /\ mode = Standalone
    /\ res.op = "resolveIdentity"
    /\ res.kind = "error"
    /\ res.reason = "User not found"
    /\ res.key \in DOMAIN sessions

\* C13: assertTenantContext(token) fails as Unauthorized exactly when
\* validateSession(token) is Invalid; otherwise it returns the tenantId,
\* userId, roles and sessionId of the validated context and makes no profile
\* lookup, so it succeeds when the user's profile no longer exists
C13_AssertTenantContext ==
    [][\A k \in Tokens :
        AssertTenantContext(k) =>
            LET v == SvcValidateSession(mode, sessions, ClerkState, k, now) IN
            /\ res'.kind = "error" <=> v.kind = "invalid"
            /\ res'.kind = "error" =>
                  /\ res'.reason = "Unauthorized: " \o v.reason
                  /\ IsUnauthorized(res'.reason)
                  /\ res'.value = << >>
            /\ v.kind = "valid" =>
                  /\ res'.kind = "ok"
                  /\ res'.value = <<[tenantId |-> v.context[1].tenantId,
                                     userId |-> v.context[1].userId,
                                     roles |-> v.context[1].roles,
                                     sessionId |-> v.context[1].sessionId]>>
                  /\ res'.calls = v.calls
                  /\ res'.member = "none"
                  /\ res'.profiles = << >>]_vars

\* assertTenantContext succeeded for a context whose profile lookup is empty
C13_Witness ==
    /\ res.op = "assertTenantContext"
    /\ res.kind = "ok"
    /\ res.context # << >>
    /\ LookupFor(res.context[1], FALSE).kind = "absent"
    /\ mode = Standalone

\* C14: in delegated mode neither resolveIdentity nor assertTenantContext
\* returns a result naming tenant T and user U unless the membership check
\* for (T, U) was made during the call and was positive
C14_GuardBeforeRelease ==
    (mode = Delegated /\ res.op \in {"resolveIdentity", "assertTenantContext"}
        /\ res.kind = "ok") =>
        /\ res.member = "yes"
        /\ \E i \in 1..Len(res.calls) : res.calls[i] = "listOrganizationMembers"
        /\ IsMemberNow(res.value[1].tenantId, res.value[1].userId)

\* the standalone data equivalent to the IdP state c: every existing member U
\* of a tenant T is a stored user of T, and every token k of the IdP is a
\* stored session k with the tenant, user, roles and instants of its claims
MemberProfiles(c) ==
    LET pairs == <<<<"a", "c1">>, <<"a", "c2">>, <<"a:b", "c1">>, <<"a:b", "c2">>>>
        held == SelectSeq(pairs, LAMBDA q :
                    \E i \in 1..Len(ClerkListOrganizationMembers(c, q[1])) :
                        ClerkListOrganizationMembers(c, q[1])[i].id = q[2])
    IN  [i \in 1..Len(held) |-> clerkUserToProfile(c.users[held[i][2]], held[i][1])]

RECURSIVE StoreAll(_, _)
StoreAll(m, profiles) ==
    IF profiles = << >> THEN m
    ELSE StoreAll(StorageCreateUser(m, Head(profiles)).users, Tail(profiles))

EquivalentUsers(c) == StoreAll(<< >>, MemberProfiles(c))

EquivalentSessions(c) ==
    [k \in DOMAIN c.sessions |->
        [sessionId |-> k,
         userId |-> extractTenantContext(c.sessions[k]).userId,
         tenantId |-> extractTenantContext(c.sessions[k]).tenantId,
         roles |-> extractTenantContext(c.sessions[k]).roles,
         issuedAt |-> extractTenantContext(c.sessions[k]).issuedAt,
         expiresAt |-> extractTenantContext(c.sessions[k]).expiresAt]]

\* resolveIdentity(k) now, in delegated mode over the IdP, and in standalone
\* mode over the equivalent stores
ResolveDelegated(k) ==
    SvcResolveIdentity(Delegated, EmptyFn, << >>, ClerkState, k, now, FALSE)
ResolveStandalone(k) ==
    SvcResolveIdentity(Standalone, EquivalentSessions(ClerkState),
                       EquivalentUsers(ClerkState), ClerkState, k, now, FALSE)

\* C15: for equivalent data resolveIdentity(k) succeeds in both modes or fails
\* in both, and when it succeeds it returns the same tenantId, userId and
\* roles in both
C15_CrossModeEquivalence ==
    mode = Delegated =>
        \A k \in Tokens :
            /\ ResolveDelegated(k).o.kind = "ok" <=> ResolveStandalone(k).o.kind = "ok"
            /\ ResolveDelegated(k).o.kind = "ok" =>
                  /\ ResolveDelegated(k).value[1].tenantId
                        = ResolveStandalone(k).value[1].tenantId
                  /\ ResolveDelegated(k).value[1].userId
                        = ResolveStandalone(k).value[1].userId
                  /\ ResolveDelegated(k).value[1].roles
                        = ResolveStandalone(k).value[1].roles

\* the users the storage holds: the profiles stored under their own primary key
StoredUsers ==
    {users[i].val : i \in {j \in 1..Len(users) :
                              users[j].key = getKey(users[j].val.tenantId,
                                                    users[j].val.userId)}}

\* C16: standalone, in every reachable state at most one stored user exists
\* per tenantId and canonical phone, under any interleaving of createUser calls
C16_OneUserPerTenantPhone ==
    mode = Standalone =>
        \A x, y \in StoredUsers :
            (x.tenantId = y.tenantId /\ x.phone = y.phone) => x.userId = y.userId

\* C17: createUser stores the normalized phone, and getUserByPhone(T, r2) and
\* authenticate(T, r2) find the user of T whose stored phone is the canonical
\* form of r2, whichever spelling r1 of it the user was created with
C17_CanonicalPhoneIsKey ==
    mode = Standalone =>
        /\ (res.op = "createUser" /\ res.kind = "ok") =>
              /\ res.profiles[1].phone = normalizeNigerianPhone(res.key).value
              /\ res.profiles[1] \in StoredUsers
        /\ (res.op \in {"getUserByPhone", "authenticate"}
               /\ normalizeNigerianPhone(res.key).ok) =>
              \A U \in StoredUsers :
                  (U.tenantId = res.tenantId
                      /\ U.phone = normalizeNigerianPhone(res.key).value) =>
                      /\ res.kind = "ok"
                      /\ res.op = "getUserByPhone" =>
                            /\ res.profiles[1].userId = U.userId
                            /\ res.profiles[1].tenantId = U.tenantId
                      /\ res.op = "authenticate" =>
                            /\ res.value[1].userId = U.userId
                            /\ res.value[1].tenantId = U.tenantId

\* a user created with the national spelling was authenticated with the
\* spaced international spelling of the same number
C17_Witness ==
    /\ mode = Standalone
    /\ res.op = "authenticate"
    /\ res.key = "+234 801 234 5678"
    /\ res.kind = "ok"
    /\ \E U \in StoredUsers : U.userId = res.value[1].userId /\ U.phone = "+2348012345678"

\* C18: standalone, authenticate(T, phone, roles) for an existing user U of T
\* creates exactly one new session record, with a fresh sessionId, userId U,
\* tenantId T, the given roles and expiresAt = issuedAt + sessionDurationMs,
\* and returns the same sessionId, userId, tenantId, roles and expiresAt;
\* validateSession of that sessionId right afterwards is Valid with the
\* stored context
C18_AuthenticateCreatesSession ==
    [][\A t \in Tenants, p \in SessionPhones, r \in RoleLists :
        (mode = Standalone /\ Authenticate(t, p, r)
            /\ normalizeNigerianPhone(p).ok
            /\ StorageGetUserByPhone(users, t, normalizeNigerianPhone(p).value) # << >>) =>
            LET U == StorageGetUserByPhone(users, t, normalizeNigerianPhone(p).value)[1]
                k == res'.value[1].sessionId
            IN  /\ res'.kind = "ok"
                /\ k \notin DOMAIN sessions
                /\ k \notin {users[i].val.userId : i \in 1..Len(users)}
                /\ DOMAIN sessions' = DOMAIN sessions \cup {k}
                /\ \A j \in DOMAIN sessions : sessions'[j] = sessions[j]
                /\ sessions'[k] = [sessionId |-> k, userId |-> U.userId, tenantId |-> t,
                                   roles |-> r, issuedAt |-> now,
                                   expiresAt |-> now + sessionDurationMs]
                /\ res'.value = <<[userId |-> U.userId, tenantId |-> t, sessionId |-> k,
                                   roles |-> r, expiresAt |-> now + sessionDurationMs]>>
                /\ users' = users
                /\ SvcValidateSession(mode, sessions', ClerkState, k, now).kind = "valid"
                /\ SvcValidateSession(mode, sessions', ClerkState, k, now).context
                      = <<sessions'[k]>>]_vars

\* a session with roles was issued to a stored user and is held by the store
C18_Witness ==
    /\ mode = Standalone
    /\ res.op = "authenticate"
    /\ res.kind = "ok"
    /\ res.value[1].roles = <<"admin">>
    /\ res.value[1].sessionId \in DOMAIN sessions
    /\ \E U \in StoredUsers : U.userId = res.value[1].userId

C20_LogoutIsFinal ==
    mode = Standalone =>
        /\ revoked \cap DOMAIN sessions = {}
        /\ (res.op = "validateSession" /\ res.key \in revoked) => res.kind = "invalid"
        /\ (res.op \in {"resolveIdentity", "assertTenantContext"} /\ res.key \in revoked)
              => (res.kind = "error" /\ res.value = << >>)

\* a session was logged out while its user stayed stored, and a later
\* resolveIdentity of it failed
C20_Witness ==
    /\ mode = Standalone
    /\ res.op = "resolveIdentity"
    /\ res.key \in revoked
    /\ res.kind = "error"
    /\ \E U \in StoredUsers : /\ U.userId = issued[res.key].userId
                              /\ U.tenantId = issued[res.key].tenantId

\* the outcome of validateSession(k) over the session store ss now
ValidatesAs(ss, k) ==
    <<SvcValidateSession(mode, ss, ClerkState, k, now).kind,
      SvcValidateSession(mode, ss, ClerkState, k, now).context>>

\* C21: logoutAll(T, U) removes every stored session whose tenantId is T and
\* userId is U, however many, and no other: the sessions of other users, and
\* of the same userId in another tenant, are unchanged and validate as before
C21_LogoutAllFrame ==
    [][\A t \in Tenants, u \in PriorUserIds :
        LogoutAll(t, u) =>
            /\ res'.kind = "ok"
            /\ DOMAIN sessions' =
                   {k \in DOMAIN sessions :
                       ~(sessions[k].tenantId = t /\ sessions[k].userId = u)}
            /\ \A k \in DOMAIN sessions' :
                   /\ sessions'[k] = sessions[k]
                   /\ ValidatesAs(sessions', k) = ValidatesAs(sessions, k)
            /\ \A k \in (DOMAIN sessions) \ DOMAIN sessions' :
                   ValidatesAs(sessions', k) = <<"invalid", << >> >>
            /\ users' = users]_vars

\* logoutAll('a', 'u1') has run: both sessions of that user are gone, while
\* the session of 'u1' in tenant 'a:b' and the session of 'u2' are held
C21_Witness ==
    /\ res.op = "logoutAll"
    /\ res.tenantId = "a" /\ res.key = "u1"
    /\ {"s1", "s2"} \subseteq revoked
    /\ {"s3", "s4"} \subseteq DOMAIN sessions
    /\ ValidatesAs(sessions, "s3")[1] = "valid"

\* C22: standalone, once deleteUser(T, U) has completed (the user is gone
\* from the storage), getUser(T, U) is absent and validateSession is Invalid
\* for every session ever issued for (T, U), under any interleaving of
\* deleteUser with authenticate calls for that user
C22_NoSessionOfDeletedUser ==
    mode = Standalone =>
        \A k \in DOMAIN issued :
            SvcGetUser(mode, users, ClerkState, issued[k].tenantId, issued[k].userId,
                       FALSE).kind = "absent"
                => ValidatesAs(sessions, k)[1] = "invalid"

\* C23: standalone, after deleteUser(T, U) has completed, following any
\* createUser and updateUser calls, getUser, getUserByPhone and getUserByEmail
\* (for every email U had at any time) return no profile of the deleted
\* user: every profile a lookup returns is of a user the storage still holds
C23_NoProfileOfDeletedUser ==
    (mode = Standalone /\ res.op \in Lookups) =>
        \A i \in 1..Len(res.profiles) :
            \E U \in StoredUsers : /\ U.tenantId = res.profiles[i].tenantId
                                    /\ U.userId = res.profiles[i].userId

\* the user storage's primary record of user (T, U), as a set of zero or one
StoredUserOf(m, tenantId, userId) ==
    {m[i].val : i \in {j \in 1..Len(m) :
                          /\ m[j].key = getKey(m[j].val.tenantId, m[j].val.userId)
                          /\ m[j].val.tenantId = tenantId
                          /\ m[j].val.userId = userId}}

\* the primary records of all users but (T, U)
StoredUsersBut(m, tenantId, userId) ==
    {m[i].val : i \in {j \in 1..Len(m) :
                          /\ m[j].key = getKey(m[j].val.tenantId, m[j].val.userId)
                          /\ ~(m[j].val.tenantId = tenantId /\ m[j].val.userId = userId)}}

\* C24: updateUser(T, U, patch) changes only email, displayName and updatedAt
\* of user U of tenant T (userId, tenantId, phone and createdAt are kept),
\* leaves every other user unchanged, and fails leaving the store unchanged
\* when the store holds no user (T, U), also when U exists in another tenant
C24_UpdateUserFrame ==
    [][\A t \in Tenants, u \in LookupIds, patch \in UpdatePatches :
        (mode = Standalone /\ UpdateUser(t, u, patch)) =>
            /\ StoredUsersBut(users', t, u) = StoredUsersBut(users, t, u)
            /\ StoredUserOf(users, t, u) = {} =>
                  /\ res'.kind = "error"
                  /\ users' = users
            /\ \A old \in StoredUserOf(users, t, u) :
                  /\ res'.kind = "ok"
                  /\ StoredUserOf(users', t, u) = {res'.profiles[1]}
                  /\ res'.profiles[1] =
                        [old EXCEPT !.email = IF patch.setEmail THEN patch.email ELSE @,
                                    !.displayName = IF patch.setName THEN patch.name ELSE @,
                                    !.updatedAt = now]]_vars

\* the operations by the caller-supplied values they validate
ByTenantAndUser == {"getUser", "updateUser", "deleteUser", "logoutAll"}
ByTenantAndPhone == {"createUser", "authenticate", "getUserByPhone"}
ByTenant == {"getUserByEmail", "listUsers"}
ByToken == {"validateSession", "resolveIdentity", "assertTenantContext", "logout"}

\* s is empty or longer than 255 characters
Malformed(s) == Len(s) = 0 \/ Len(s) > MaxIdLength

\* the call recorded in r was given an empty or over-long token, tenantId or
\* userId, or a phone of no accepted shape
MalformedCall(r) ==
    IF r.op \in ByTenantAndUser THEN Malformed(r.tenantId) \/ Malformed(r.key)
    ELSE IF r.op \in ByTenantAndPhone
    THEN Malformed(r.tenantId) \/ ~normalizeNigerianPhone(r.key).ok
    ELSE IF r.op \in ByTenant THEN Malformed(r.tenantId)
    ELSE IF r.op \in ByToken THEN Malformed(r.key)
    ELSE FALSE

\* C25: every public operation given a malformed token, tenantId, userId or
\* phone fails with the validation's error (never with an Invalid session
\* result), having made no call to user storage, session storage or the IdP,
\* and leaves all stores unchanged
C25_MalformedInputRejected ==
    [][(res = Idle /\ res' # Idle /\ MalformedCall(res')) =>
          /\ res'.kind = "error"
          /\ res'.reason \in {InvalidInput, "Invalid Nigerian phone number"}
          /\ res'.calls = << >>
          /\ res'.context = << >> /\ res'.value = << >> /\ res'.profiles = << >>
          /\ UNCHANGED <<localVars, clerkVars, histVars>>]_vars

\* a token one character over the bound was rejected by resolveIdentity in
\* delegated mode with a session registered, and the longest admissible
\* token would have reached the IdP
C25_Witness ==
    /\ mode = Delegated
    /\ res.op = "resolveIdentity"
    /\ res.key = LongId
    /\ res.kind = "error" /\ res.reason = InvalidInput
    /\ cSessions # EmptyFn
    /\ SvcValidateSession(mode, sessions, ClerkState, MaxLengthId, now).calls
          = <<"clerk.verifySession">>

\* C26: the Membership Guard keeps nothing between calls: in delegated mode
\* the answer of getUser, getUserByPhone, getUserByEmail and resolveIdentity is
\* the directory's answer at the time of the call. Each of them asks
\* listOrganizationMembers in that call, releases a profile only of a user who
\* is a member now, and (the directory answering) releases the profile of
\* every user who is a member now, whatever an earlier call returned
C26_GuardAsksEveryTime ==
    (mode = Delegated /\ res.op \in {"getUser", "getUserByPhone", "getUserByEmail",
                                      "resolveIdentity"}) =>
        LET subject ==
                IF res.op = "getUser" THEN {res.key}
                ELSE IF res.op = "resolveIdentity"
                THEN {res.context[i].userId : i \in 1..Len(res.context)}
                ELSE ResolvedUser
            tenant == IF res.op = "resolveIdentity"
                      THEN {res.context[i].tenantId : i \in 1..Len(res.context)}
                      ELSE {res.tenantId}
            memberNow == \E t \in tenant, u \in subject : IsMemberNow(t, u)
        IN  /\ res.kind = "ok" =>
                  /\ memberNow
                  /\ res.member = "yes"
                  /\ \E i \in 1..Len(res.calls) : res.calls[i] = "listOrganizationMembers"
            /\ (subject # {} /\ ~memberNow) => res.kind # "ok"
            /\ (subject # {} /\ ~memberNow /\ ~res.dirFails) =>
                  IF res.op = "resolveIdentity"
                  THEN res.kind = "error" /\ res.reason = "User not found"
                  ELSE res.kind = "absent"
            /\ (memberNow /\ ~res.dirFails) => res.kind = "ok"

\* resolveIdentity refused a token that it had resolved before, the user having
\* left the directory of the tenant since
C26_Witness ==
    /\ mode = Delegated
    /\ res.op = "resolveIdentity"
    /\ res.kind = "error"
    /\ res.reason = "User not found"
    /\ ~res.dirFails
    /\ res.context # << >>
    /\ \E a \in admitted : /\ a[1] = res.key
                            /\ a[2].tenantId = res.context[1].tenantId
                            /\ a[2].userId = res.context[1].userId
                            /\ ~IsMemberNow(a[2].tenantId, a[2].userId)
\* C27: a service configured with an IdP collaborator never writes to the
\* local session store: in delegated mode no call of validateSession,
\* resolveIdentity, assertTenantContext or authenticate creates or stores a
\* session record there
C27_NoLocalSessionWhenDelegated ==
    mode = Delegated => DOMAIN sessions = {}
\* C28: in standalone mode deleting a session is safe while a validateSession
\* of it is in flight. logout, logoutAll and the lazy eviction of a record that
\* is already gone return normally and change nothing; a validateSession that
\* reads the store after the session was deleted finds nothing and returns
\* Invalid; one that returns Valid read the record while it was stored, before
\* any deletion of it took effect
C28_DeletionDuringValidation ==
    [][ mode = Standalone =>
          /\ \A caller \in DOMAIN pending' \ DOMAIN pending :
                pending'[caller].op = "validateSession" =>
                  LET call == pending'[caller] IN
                  /\ call.sessionId \in (revoked \cup evicted) => call.context = << >>
                  /\ call.context # << >> => /\ call.sessionId \in DOMAIN sessions
                                              /\ call.context[1] = sessions[call.sessionId]
          /\ \A caller \in DOMAIN pending \ DOMAIN pending' :
                pending[caller].op = "validateSession" =>
                  LET call == pending[caller] IN
                  /\ res'.op = "validateSession" /\ res'.key = call.sessionId
                  /\ res'.kind \in {"valid", "invalid"}
                  /\ call.context = << >> => res'.kind = "invalid" /\ sessions' = sessions
                  /\ res'.kind = "valid" =>
                        /\ call.context # << >>
                        /\ res'.context = call.context
                        /\ ~IsExpired(call.context[1], now)
                  /\ call.sessionId \notin DOMAIN sessions => sessions' = sessions
          /\ res'.op = "logout" =>
                /\ res'.kind = "ok"
                /\ res'.key \notin DOMAIN sessions' 
                /\ res'.key \notin DOMAIN sessions => sessions' = sessions
          /\ res'.op = "logoutAll" =>
                /\ res'.kind = "ok"
                /\ UserSessionIds(sessions', res'.tenantId, res'.key) = {}
                /\ UserSessionIds(sessions, res'.tenantId, res'.key) = {} =>
                      sessions' = sessions
      ]_vars

\* a validateSession returned Valid for a session that logout or logoutAll had
\* deleted while the call was waiting for its read
C28_Witness ==
    /\ mode = Standalone
    /\ res.op = "validateSession"
    /\ res.kind = "valid"
    /\ res.key \in revoked
    /\ res.key \notin DOMAIN sessions
\* the claims of the token of the last call, none when the IdP has no such
\* session
ClaimsOfCall ==
    IF res.key \in DOMAIN cSessions THEN {cSessions[res.key]} ELSE {}

\* C29: the roles extracted from claims are an ordered list: org_role first
\* when there is one, then the entries of metadata.roles in their order, a role
\* found in both places listed twice; org_id 'orgA', org_role 'admin' and
\* metadata roles ['billing'] give tenantId 'orgA' and roles
\* ['admin', 'billing']
C29_RolesInOrder ==
    (mode = Delegated /\ res.op \in {"validateSession", "resolveIdentity"}) =>
        \A claims \in ClaimsOfCall :
            /\ res.op = "validateSession" => res.kind = "valid"
            /\ \A i \in 1..Len(res.context) :
                  LET roles == res.context[i].roles
                      extra == claims.metaRoles
                  IN  /\ claims.org_role # "" =>
                            /\ Len(roles) = 1 + Len(extra)
                            /\ roles[1] = claims.org_role
                            /\ \A j \in 1..Len(extra) : roles[j + 1] = extra[j]
                      /\ claims.org_role = "" => roles = extra
                      /\ claims.org_id # "" => res.context[i].tenantId = claims.org_id
                      /\ (/\ claims.org_id = "orgA"
                          /\ claims.org_role = "admin"
                          /\ extra = <<"billing">>) =>
                            /\ res.context[i].tenantId = "orgA"
                            /\ roles = <<"admin", "billing">>
            /\ \A i \in 1..Len(res.value) :
                  res.value[i].roles = res.context[1].roles

\* a token whose primary role is also among its metadata roles was validated:
\* the role is listed twice
C29_Witness ==
    /\ mode = Delegated
    /\ res.op = "validateSession"
    /\ res.kind = "valid"
    /\ res.context # << >>
    /\ res.context[1].roles = <<"admin", "admin">>

\* C30: claims without an organization id are not an error: the tenant is the
\* sentinel 'default' and, no role being supplied, the roles are the empty
\* list; validateSession of such a token is Valid with tenantId 'default', and
\* resolveIdentity of it succeeds only for a member of the organization whose
\* id is 'default'
C30_DefaultTenant ==
    (mode = Delegated /\ res.op \in {"validateSession", "resolveIdentity"}) =>
        \A claims \in ClaimsOfCall :
            claims.org_id = "" =>
                /\ res.op = "validateSession" =>
                      /\ res.kind = "valid"
                      /\ res.context # << >>
                /\ \A i \in 1..Len(res.context) :
                      /\ res.context[i].tenantId = "default"
                      /\ res.context[i].userId = claims.sub
                      /\ (claims.org_role = "" /\ claims.metaRoles = << >>) =>
                            res.context[i].roles = << >>
                /\ res.op = "resolveIdentity" =>
                      /\ res.kind = "ok" =>
                            /\ res.value[1].tenantId = "default"
                            /\ res.value[1].profile.tenantId = "default"
                            /\ claims.sub \in MemberIds(ClerkState, "default")
                            /\ claims.sub \in DOMAIN cUsers
                      /\ claims.sub \notin MemberIds(ClerkState, "default") =>
                            res.kind = "error"
                      /\ (res.kind = "error" /\ ~res.dirFails) =>
                            /\ res.reason = "User not found"
                            /\ ~IsMemberNow("default", claims.sub)

\* a token without an organization id was resolved to a member of the
\* organization 'default'
C30_Witness ==
    /\ mode = Delegated
    /\ res.op = "resolveIdentity"
    /\ res.kind = "ok"
    /\ res.key \in DOMAIN cSessions
    /\ cSessions[res.key].org_id = ""
    /\ res.value[1].tenantId = "default"
\* iat and exp of claims are both numbers
WellFormedTimes(claims) == claims.iat \in Nat /\ claims.exp \in Nat

\* C31: claims extraction fails exactly when iat or exp is not well-formed:
\* a delegated validateSession of a token with such claims never returns
\* Valid with a context, and for well-formed claims the context has
\* issuedAt = iat * 1000 ms and expiresAt = exp * 1000 ms
C31_MalformedClaimsRejected ==
    (mode = Delegated /\ res.op = "validateSession") =>
        \A claims \in ClaimsOfCall :
            /\ ~WellFormedTimes(claims) => res.kind # "valid" /\ res.context = << >>
            /\ WellFormedTimes(claims) =>
                  /\ res.kind = "valid"
                  /\ res.context # << >>
                  /\ res.context[1].issuedAt = claims.iat * 1000
                  /\ res.context[1].expiresAt = claims.exp * 1000

\* the four shapes of C32, of an input already stripped
IsTenDigits(s) == Len(s) = 10 /\ IsDigits(s)
FourShapes(c) ==
    \/ StartsWith(c, "+234") /\ IsTenDigits(SubSeq(c, 5, Len(c)))
    \/ StartsWith(c, "234") /\ IsTenDigits(SubSeq(c, 4, Len(c)))
    \/ StartsWith(c, "0") /\ IsTenDigits(SubSeq(c, 2, Len(c)))
    \/ IsTenDigits(c)

\* the ten national digits of an input of one of the four shapes
LastTen(c) == SubSeq(c, Len(c) - 9, Len(c))

\* C32: after stripping spaces, hyphens, parentheses and dots, normalize
\* accepts exactly '+234' + 10 digits, '234' + 10 digits, '0' + 10 digits and
\* any 10 digits, and maps each to '+234' followed by the 10 national digits;
\* every other input fails, and isValid(x) is true exactly when normalize(x)
\* succeeds
C32_FourShapes ==
    /\ res.op \in {"normalizeNigerianPhone", "roundTrip"} =>
          /\ res.kind = "ok" <=> FourShapes(Clean(res.key))
          /\ res.kind # "ok" => res.kind = "error" /\ res.value = << >>
    /\ (res.op = "normalizeNigerianPhone" /\ res.kind = "ok") =>
          res.value = <<"+234" \o LastTen(Clean(res.key))>>
    /\ res.op = "isValidNigerianPhone" =>
          /\ res.value[1] = FourShapes(Clean(res.key))
          /\ res.value[1] = normalizeNigerianPhone(res.key).ok

\* C33: for every valid x, normalize(normalize(x)) = normalize(x),
\* format(normalize(x)) is defined and normalizing it gives normalize(x) back;
\* format fails for every input that is not 14 characters starting with '+234'
C33_RoundTrip ==
    /\ (res.op = "roundTrip" /\ res.kind = "ok") =>
          LET r == res.value[1] IN
          /\ r.again = <<[ok |-> TRUE, value |-> r.normalized]>>
          /\ r.shown # << >> /\ r.shown[1].ok
          /\ r.back = <<[ok |-> TRUE, value |-> r.normalized]>>
    /\ res.op = "formatNigerianPhone" =>
          /\ ~(Len(res.key) = 14 /\ StartsWith(res.key, "+234")) =>
                res.kind = "error" /\ res.value = << >>
          /\ (Len(res.key) = 14 /\ StartsWith(res.key, "+234")) => res.kind = "ok"

\* an input that is not canonical went through the round trip, and its
\* display form is not the canonical form either
C33_Witness ==
    /\ res.op = "roundTrip"
    /\ res.kind = "ok"
    /\ res.value[1].normalized # res.key
    /\ res.value[1].shown[1].ok
    /\ res.value[1].shown[1].value # res.value[1].normalized
    /\ res.value[1].back # << >>
\* the users that exist in tenant T: standalone, the primary records of T;
\* delegated, the members of T that the IdP holds, converted with tenantId T
ExistingUsersOf(tenantId) ==
    IF mode = Standalone
    THEN {U \in StoredUsers : U.tenantId = tenantId}
    ELSE {clerkUserToProfile(cUsers[u], tenantId) :
            u \in {m \in MemberIds(ClerkState, tenantId) : m \in DOMAIN cUsers}}

\* the last call was listUsers(T) with no limit and no offset, and it returned
WholeListing ==
    /\ res.op = "listUsers"
    /\ res.kind = "ok"
    /\ res.key = <<0, 0>>

PageNow(limit, offset) ==
    SvcListUsers(mode, users, ClerkState, res.tenantId, limit, offset, FALSE).profiles
UserIdsOf(page) == {page[i].userId : i \in 1..Len(page)}

\* C35: listUsers(T, {limit, offset}) returns the slice [offset, offset + limit)
\* of one ordering of T's users: at most limit users for every limit >= 0 (at
\* most 100 when no limit is given), and, nothing being written in between,
\* the pages at offsets 0, limit, 2 * limit, ... are pairwise disjoint and
\* together hold every user of T
C35_Pagination ==
    (res.op = "listUsers" /\ res.kind = "ok") =>
        LET limit == res.key[1]
            offset == IF res.key[2] = NotGiven THEN 0 ELSE res.key[2]
            whole == PageNow(NotGiven, NotGiven)
        IN  /\ limit >= 0 => Len(res.profiles) <= limit
            /\ limit = NotGiven => Len(res.profiles) <= 100
            /\ limit >= 0 =>
                  /\ \A i \in 1..Len(res.profiles) :
                        /\ offset + i <= Len(whole)
                        /\ res.profiles[i] = whole[offset + i]
                  /\ Len(res.profiles) < limit => offset + Len(res.profiles) >= Len(whole)
            /\ limit >= 1 =>
                  /\ \A j, k \in 0..Len(whole) :
                        j # k => UserIdsOf(PageNow(limit, j * limit))
                                    \cap UserIdsOf(PageNow(limit, k * limit)) = {}
                  /\ UNION {UserIdsOf(PageNow(limit, k * limit)) : k \in 0..Len(whole)}
                        = UserIdsOf(whole)
\* the existing users of the tenant of the last call that have the phone or the
\* email it asked for (emails compared as the index compares them, without
\* regard to case)
OwnersOfKey ==
    IF res.op = "getUserByPhone"
    THEN {U \in StoredUsers : /\ U.tenantId = res.tenantId
                              /\ normalizeNigerianPhone(res.key).ok
                              /\ U.phone = normalizeNigerianPhone(res.key).value}
    ELSE {U \in StoredUsers : /\ U.tenantId = res.tenantId
                              /\ U.email # NoEmail
                              /\ ToLowerCase(U.email) = ToLowerCase(res.key)}

\* C36: standalone, in every reachable state getUserByPhone(T, p) and
\* getUserByEmail(T, e) return the current profile of an existing user of T
\* who has phone p / email e, the one getUser returns for that user, return it
\* whenever there is such a user, and never a stale or deleted profile
C36_IndexConsistency ==
    (mode = Standalone /\ res.op \in {"getUserByPhone", "getUserByEmail"}
                       /\ res.kind # "error") =>
        /\ \A i \in 1..Len(res.profiles) :
              /\ res.profiles[i] \in OwnersOfKey
              /\ <<res.profiles[i]>> = StorageGetUser(users, res.tenantId,
                                                      res.profiles[i].userId)
        /\ OwnersOfKey # {} => res.profiles # << >>
\* C37: getUser(T, U) returns absent or a profile whose userId is U, for every
\* tenantId and userId that validation accepts; it never returns a record
\* stored under a phone or an email index entry
C37_GetUserReturnsThatUser ==
    (res.op = "getUser" /\ res.kind = "ok") =>
        \A i \in 1..Len(res.profiles) :
            /\ res.profiles[i].userId = res.key
            /\ mode = Standalone =>
                  getKey(res.tenantId, res.key)
                      \notin {getPhoneKey(U.tenantId, U.phone) : U \in StoredProfiles}
                         \cup {getEmailKey(U.tenantId, U.email) :
                                  U \in {V \in StoredProfiles : V.email # NoEmail}}
\* what resolveIdentity(k) returns over the session store ss and the IdP c now
ResolvesAs(ss, c, k) ==
    <<SvcResolveIdentity(mode, ss, users, c, k, now, FALSE).o.kind,
      SvcResolveIdentity(mode, ss, users, c, k, now, FALSE).value>>

\* the IdP as it is after the step
ClerkStateAfter ==
    [sessions |-> cSessions', users |-> cUsers', emailIndex |-> emailIndex',
     phoneIndex |-> phoneIndex', orgMembers |-> orgMembers']

\* C38: in delegated mode logout(token) and logoutAll(T, U) leave the IdP as
\* it is: every token validates and resolves after the call as it did before
\* it, so a token that was Valid before logout is Valid after it
C38_LogoutLeavesIdPAlone ==
    [][ (mode = Delegated /\ res'.op \in {"logout", "logoutAll"}) =>
          /\ res'.kind = "ok"
          /\ ClerkStateAfter = ClerkState
          /\ \A k \in Tokens :
                /\ SvcValidateSession(mode, sessions', ClerkStateAfter, k, now).kind
                      = SvcValidateSession(mode, sessions, ClerkState, k, now).kind
                /\ SvcValidateSession(mode, sessions', ClerkStateAfter, k, now).context
                      = SvcValidateSession(mode, sessions, ClerkState, k, now).context
                /\ ResolvesAs(sessions', ClerkStateAfter, k) = ResolvesAs(sessions, ClerkState, k)
      ]_vars

\* logout of a token of the IdP has returned, and the token is still Valid
C38_Witness ==
    /\ mode = Delegated
    /\ res.op = "logout"
    /\ res.kind = "ok"
    /\ res.key \in DOMAIN cSessions
    /\ ValidatesAs(sessions, res.key)[1] = "valid"
\* the roles lists the last result carries
RolesReturned ==
    {res.context[i].roles : i \in DOMAIN res.context}
        \cup (IF res.op \in {"authenticate", "resolveIdentity", "assertTenantContext"}
              THEN {res.value[i].roles : i \in DOMAIN res.value} ELSE {})

\* the session the last result is about
SessionOfResult ==
    IF res.op = "authenticate" THEN res.value[1].sessionId ELSE res.key

\* C39: in standalone mode the roles of every SessionContext, TenantContext
\* and IdentityResolution of a session are the roles list passed to the
\* authenticate call that issued it, for as long as the session lives; the
\* roles given to createUser are stored nowhere and appear in no result
C39_RolesAreTheIssuedRoles ==
    mode = Standalone =>
        /\ \A k \in DOMAIN sessions :
              k \in DOMAIN issued /\ sessions[k].roles = issued[k].roles
        /\ (res.op \in {"authenticate", "validateSession", "resolveIdentity",
                        "assertTenantContext"} /\ res.kind \in {"ok", "valid"}) =>
              /\ RolesReturned # {}
              /\ \A roles \in RolesReturned : roles = issued[SessionOfResult].roles
        /\ \A roles \in RolesReturned : roles \notin GivenRoles
        /\ \A i \in DOMAIN res.profiles : "roles" \notin DOMAIN res.profiles[i]
        /\ \A k \in DOMAIN users : "roles" \notin DOMAIN users[k]

\* a session issued with roles resolves to those roles some time after it
\* was issued, for a user that was created with other roles
C39_Witness ==
    /\ mode = Standalone
    /\ res.op = "resolveIdentity"
    /\ res.kind = "ok"
    /\ res.value[1].roles = <<"admin">>
    /\ issued[res.key].roles = <<"admin">>
    /\ issued[res.key].issuedAt < now
ValidationOps == {"validateSession", "resolveIdentity", "assertTenantContext"}

\* C40: validateSession, resolveIdentity and assertTenantContext leave the
\* service's stores as they are, whether they succeed or fail, but for lazy
\* eviction: the one change they can make is to delete the session record
\* being validated when it is found expired; no other session and no user
\* record is created, changed or deleted
C40_ValidationOnlyEvicts ==
    [][ res'.op \in ValidationOps =>
          /\ users' = users
          /\ idCount' = idCount
          /\ \/ sessions' = sessions
             \/ /\ mode = Standalone
                /\ res'.key \in DOMAIN sessions
                /\ sessions[res'.key].expiresAt < now
                /\ DOMAIN sessions' = DOMAIN sessions \ {res'.key}
                /\ \A k \in DOMAIN sessions' : sessions'[k] = sessions[k]
                /\ res'.kind \notin {"ok", "valid"}
      ]_vars

\* resolveIdentity has found its session expired and removed it; the user's
\* record is still stored
C40_Witness ==
    /\ res.op = "resolveIdentity"
    /\ res.reason = "Invalid session: Session expired"
    /\ res.key \in evicted
    /\ res.key \notin DOMAIN sessions
    /\ users # << >>
====
